---- MODULE Spec2Model ----
(***************************************************************************)
(* DOMTagger (core/tagger.ts): classification of elements, additive        *)
(* tagging, the capture-phase click and change handlers, the bounded       *)
(* ancestor walk and the pushes to window.dataLayer, over a small fixed    *)
(* document.                                                               *)
(***************************************************************************)
EXTENDS Integers, Sequences, FiniteSets, TLC

(***************************************************************************)
(* Bounds of the model.                                                    *)
(***************************************************************************)
\* the longest window.dataLayer explored
MaxSink == 2

(***************************************************************************)
(* Strings. A JavaScript string is a TLA+ string; the operations are       *)
(* computed character by character.                                        *)
(***************************************************************************)
CharAt(s, i) == SubSeq(s, i, i)

IsSpace(c) == c \in {" ", "\t", "\n"}

\* F applied to the value of v, which is computed once
Apply(v, F(_)) == CHOOSE y \in {F(x) : x \in {v}} : TRUE

\* String.prototype.trim: from the first to the last character that is no space
Trim(s) ==
  LET keep == {i \in 1..Len(s) : ~IsSpace(CharAt(s, i))}
  IN  IF keep = {} THEN ""
      ELSE SubSeq(s, CHOOSE i \in keep : \A j \in keep : i <= j,
                     CHOOSE i \in keep : \A j \in keep : i >= j)

UpperLetters == "ABCDEFGHIJKLMNOPQRSTUVWXYZ"
LowerLetters == "abcdefghijklmnopqrstuvwxyz"

LowerChar(c) ==
  IF \E i \in 1..26 : CharAt(UpperLetters, i) = c
  THEN CharAt(LowerLetters, CHOOSE i \in 1..26 : CharAt(UpperLetters, i) = c)
  ELSE c

RECURSIVE LowerFrom(_, _)
LowerFrom(s, i) ==
  IF i > Len(s) THEN "" ELSE LowerChar(CharAt(s, i)) \o LowerFrom(s, i + 1)

\* String.prototype.toLowerCase
ToLowerCase(s) == LowerFrom(s, 1)

\* String.prototype.includes
Includes(s, sub) ==
  \E i \in 1..(Len(s) - Len(sub) + 1) : SubSeq(s, i, i + Len(sub) - 1) = sub

\* a whitespace-separated token of a class attribute (classList.contains)
ClassListContains(s, tok) ==
  \E i \in 1..(Len(s) - Len(tok) + 1) :
    /\ SubSeq(s, i, i + Len(tok) - 1) = tok
    /\ (i = 1 \/ IsSpace(CharAt(s, i - 1)))
    /\ (i + Len(tok) - 1 = Len(s) \/ IsSpace(CharAt(s, i + Len(tok))))

RECURSIVE HyphenateFrom(_, _)
HyphenateFrom(s, i) ==
  IF i > Len(s) THEN ""
  ELSE IF IsSpace(CharAt(s, i))
       THEN (IF i > 1 /\ IsSpace(CharAt(s, i - 1)) THEN "" ELSE "-") \o HyphenateFrom(s, i + 1)
       ELSE CharAt(s, i) \o HyphenateFrom(s, i + 1)

\* replace(/\s+/g, '-'): every maximal run of whitespace becomes one hyphen
Hyphenate(s) == HyphenateFrom(s, 1)

Digits == "0123456789"
IsDigit(c) == \E i \in 1..10 : CharAt(Digits, i) = c

\* !isNaN(parseFloat(t)) for a trimmed t: an optional sign, then a digit, or
\* a dot followed by a digit; whatever follows the number is ignored
ParsesAsFloat(t) ==
  LET u == IF Len(t) > 0 /\ CharAt(t, 1) \in {"+", "-"} THEN SubSeq(t, 2, Len(t)) ELSE t
  IN  \/ Len(u) >= 1 /\ IsDigit(CharAt(u, 1))
      \/ Len(u) >= 2 /\ CharAt(u, 1) = "." /\ IsDigit(CharAt(u, 2))

RECURSIVE AllDigits(_, _)
AllDigits(s, i) == i > Len(s) \/ (IsDigit(CharAt(s, i)) /\ AllDigits(s, i + 1))

\* a valid floating-point number without exponent: an optional minus, digits,
\* and optionally a dot followed by digits
IsValidFloatingPointNumber(s) ==
  LET u == IF Len(s) > 0 /\ CharAt(s, 1) = "-" THEN SubSeq(s, 2, Len(s)) ELSE s
      dots == {i \in 1..Len(u) : CharAt(u, i) = "."}
  IN  /\ Len(u) > 0
      /\ \/ dots = {} /\ AllDigits(u, 1)
         \/ \E d \in dots :
              /\ dots = {d}
              /\ d < Len(u)
              /\ AllDigits(SubSeq(u, 1, d - 1), 1)
              /\ AllDigits(SubSeq(u, d + 1, Len(u)), 1)

\* what the value property of an input in the number state holds after a
\* string is assigned or typed: the string if it is a valid number, else ''
SanitizeNumber(s) == IF IsValidFloatingPointNumber(s) THEN s ELSE ""

\* the isValidNumber helper of determineValue
isValidNumber(value) == LET trimmed == Trim(value) IN trimmed # "" /\ ParsesAsFloat(trimmed)

(***************************************************************************)
(* The document. Its shape (nodes, tags, classes, geometry) is fixed; what *)
(* a page script or the user can change is held in variables.              *)
(***************************************************************************)
VARIABLES
  config,              \* this.config, set by the constructor
  performanceApi,      \* the host has a global performance object
  memoryApi,           \* performance.memory exists
  fault,               \* per element: which of its properties is corrupted
  attributes,          \* per element: its attributes, name -> value
  ownText,             \* per element: the text directly inside it
  inputValue,          \* the number input: the string last assigned, and its value
  selectedIndex,       \* the selected option of the select
  attached,            \* the elements currently in the document
  dataLayer,           \* window.dataLayer
  listeners,           \* the event listener list of document
  performanceMetrics,  \* this.performanceMetrics
  last,                \* the last operation and how it ended
  probe                \* the argument, and the result, of a function applied on its own

envVars == <<config, performanceApi, memoryApi, fault, probe>>
domVars == <<attributes, ownText, inputValue, selectedIndex, attached>>
vars == <<config, performanceApi, memoryApi, fault, attributes, ownText, inputValue,
          selectedIndex, attached, dataLayer, listeners, performanceMetrics, last, probe>>

\* parentNode of the root of a tree
NoNode == "null"

Chain == <<"c1", "c2", "c3", "c4", "c5", "c6", "c7", "c8", "c9">>

\* the elements in document order
DocOrder ==
  <<"html", "body", "b1", "heroBtn", "sec", "secLink", "num", "sel", "svgA", "dyn">>
    \o Chain \o <<"deep">>
    \o <<"topBtn", "hdr", "hdrLink", "hdrLow", "side", "sideBtn", "lowHero", "lowHeroBtn",
          "fh", "fhLink", "footEdge", "footHigh", "hn", "hnLink", "sn", "snH", "snLink",
          "menu", "menuLink", "art", "artH", "artBtn">>

Elements == {DocOrder[i] : i \in 1..Len(DocOrder)}
Nodes == Elements \cup {"document"}

\* elements a script inserts after load
Dynamic == {"dyn"}

IndexIn(seq, x) == CHOOSE i \in 1..Len(seq) : seq[i] = x

\* the parent in the page's markup
MarkupParent ==
  [n \in Nodes |->
     CASE n = "document" -> NoNode
       [] n = "html" -> "document"
       [] n = "body" -> "html"
       [] n = "secLink" -> "sec"
       [] n \in {"hdrLink", "hdrLow"} -> "hdr"
       [] n \in {"sideBtn", "lowHero"} -> "side"
       [] n = "lowHeroBtn" -> "lowHero"
       [] n \in {"fhLink", "footEdge", "footHigh"} -> "fh"
       [] n = "hnLink" -> "hn"
       [] n \in {"snH", "snLink"} -> "sn"
       [] n = "menuLink" -> "menu"
       [] n \in {"artH", "artBtn"} -> "art"
       [] n = "c1" -> "body"
       [] n = "deep" -> "c9"
       [] n \in {Chain[i] : i \in 2..9} -> Chain[IndexIn(Chain, n) - 1]
       [] OTHER -> "body"]

\* Node.parentNode
parentNode(att, n) == IF n \in Dynamic /\ n \notin att THEN NoNode ELSE MarkupParent[n]

\* Node.parentElement
parentElement(att, n) ==
  IF parentNode(att, n) \in Elements THEN parentNode(att, n) ELSE NoNode

\* Node.nodeType === Node.ELEMENT_NODE
IsElementNode(n) == n \in Elements

\* Element.localName
LocalName(e) ==
  CASE e \in {"b1", "heroBtn", "dyn", "deep", "topBtn", "sideBtn", "lowHeroBtn", "artBtn"}
         -> "button"
    [] e \in {"secLink", "svgA", "hdrLink", "hdrLow", "fhLink", "footEdge", "footHigh",
              "hnLink", "snLink", "menuLink"} -> "a"
    [] e = "hdr" -> "header"
    [] e = "side" -> "aside"
    [] e = "snH" -> "h3"
    [] e = "artH" -> "h2"
    [] e = "num" -> "input"
    [] e = "sel" -> "select"
    [] e \in {"html", "body"} -> e
    [] OTHER -> "div"

\* element instanceof HTMLElement (an SVG <a> is an Element, not an HTMLElement)
IsHTMLElement(e) == e # "svgA"

UpperChar(c) ==
  IF \E i \in 1..26 : CharAt(LowerLetters, i) = c
  THEN CharAt(UpperLetters, CHOOSE i \in 1..26 : CharAt(LowerLetters, i) = c)
  ELSE c

RECURSIVE UpperFrom(_, _)
UpperFrom(s, i) ==
  IF i > Len(s) THEN "" ELSE UpperChar(CharAt(s, i)) \o UpperFrom(s, i + 1)

\* the upper-case form in which the DOM reports an HTML element's tag
ToUpperCase(s) == UpperFrom(s, 1)

\* Element.tagName of an element whose tagName is readable
TagName(e) == IF IsHTMLElement(e) THEN ToUpperCase(LocalName(e)) ELSE LocalName(e)

\* element.tagName.toLowerCase(), per element
lowerTagName == [e \in Elements |-> ToLowerCase(TagName(e))]

\* element.tagName.toLowerCase() throws (tagName is null)
TagNameThrows(f, e) == f[e] = "tagName"

\* Element.className
ClassName(e) ==
  CASE e = "heroBtn" -> "hero"
    [] e = "sec" -> "Hero-Banner wide"
    [] e = "side" -> "footer-links"
    [] e = "lowHero" -> "promo Hero"
    [] e = "fh" -> "hero-footer"
    [] e = "hn" -> "header-nav"
    [] e = "sn" -> "sidebar-nav"
    [] e = "menu" -> "topnav"
    [] OTHER -> ""

\* element.className.toLowerCase(), per element
lowerClassName == [e \in Elements |-> ToLowerCase(ClassName(e))]

\* the options of the select: value and text
Options == << [value |-> "1", text |-> " One "], [value |-> "2", text |-> "Two"] >>

RECURSIVE MarkupUnder(_, _)
\* d is e or a descendant of e in the page's markup
MarkupUnder(d, e) == d = e \/ (d \in Elements /\ MarkupUnder(MarkupParent[d], e))

\* per element: it and its descendants in the page's markup, in document order
Subtree ==
  [e \in Elements |-> LET Test(d) == MarkupUnder(d, e) IN SelectSeq(DocOrder, Test)]

RECURSIVE ConcatText(_, _, _, _)
\* the own texts of e and of its attached descendants, in document order
\* (the inserted elements are leaves, so a descendant is attached iff it is in att)
ConcatText(txt, att, e, i) ==
  IF i > Len(Subtree[e]) THEN ""
  ELSE LET d == Subtree[e][i]
       IN (IF d = e \/ d \in att THEN txt[d] ELSE "") \o ConcatText(txt, att, e, i + 1)

\* Node.textContent
textContent(txt, att, e) == ConcatText(txt, att, e, 1)

\* getBoundingClientRect(): top and bottom, in CSS pixels
RectTop(e) ==
  CASE e = "deep" -> 900
    [] e = "secLink" -> 60
    [] e = "hdrLink" -> 250
    [] e = "hdrLow" -> 251
    [] e \in {"sideBtn", "lowHeroBtn", "menuLink", "artBtn", "snLink"} -> 600
    [] e = "fhLink" -> 900
    [] e = "footEdge" -> 710
    [] e = "footHigh" -> 709
    [] e = "hnLink" -> 100
    [] OTHER -> 0
RectBottom(e) == RectTop(e) + 40

\* window.pageYOffset
PageYOffset == 0

\* document.documentElement.scrollHeight and document.body.scrollHeight
DocumentScrollHeight == 1000
BodyScrollHeight == 960

Max(a, b) == IF a >= b THEN a ELSE b

\* Element.hasAttribute
hasAttribute(A, e, name) == name \in DOMAIN A[e]

\* Element.getAttribute(name) || ''
getAttributeOrEmpty(A, e, name) == IF hasAttribute(A, e, name) THEN A[e][name] ELSE ""

\* a JavaScript truthiness test of Element.getAttribute(name)
attributeTruthy(A, e, name) == hasAttribute(A, e, name) /\ A[e][name] # ""

\* Element.setAttribute
setAttribute(A, e, name, value) ==
  [A EXCEPT ![e] = [n \in (DOMAIN @) \cup {name} |-> IF n = name THEN value ELSE @[n]]]

(***************************************************************************)
(* The classifier: determineType, determineAction, determineContext,       *)
(* determineValue. A is the attribute map they read, T the own texts, att  *)
(* the attached elements, f the faults.  A result that may be null is      *)
(* [isNull, str]; one that may be an exception is [threw, str].            *)
(***************************************************************************)
Null == [isNull |-> TRUE, str |-> ""]
Str(s) == [isNull |-> FALSE, str |-> s]

\* Element.getAttribute(name): null when the attribute is absent
getAttribute(A, e, name) == IF hasAttribute(A, e, name) THEN Str(A[e][name]) ELSE Null

\* the try block of determineType with the tag rule for a, button and span
\* placed before the class rule
determineTypeOf_TagBeforeClass(tagName, typeAttribute, role, className) ==
  LET tag == ToLowerCase(tagName)
      inputType == IF typeAttribute.isNull THEN "" ELSE typeAttribute.str
      classList == ToLowerCase(className)
  IN  IF tag = "input" THEN
        CASE inputType = "checkbox" -> "checkbox"
          [] inputType = "radio" -> "radio-button"
          [] inputType = "text" -> "text-input"
          [] inputType = "number" -> "stepper"
          [] inputType = "range" -> "slider"
          [] inputType = "file" -> "file-upload"
          [] OTHER -> "input"
      ELSE IF tag = "select" THEN "dropdown"
      ELSE IF tag = "textarea" THEN "textarea"
      ELSE IF role = Str("switch") THEN "switch"
      ELSE IF role = Str("slider") THEN "slider"
      ELSE IF tag = "a" THEN "link"
      ELSE IF tag = "button" THEN "button"
      ELSE IF tag = "span" THEN "span"
      ELSE IF Includes(classList, "quantity") THEN "stepper"
      ELSE IF Includes(classList, "toggle") THEN "toggle"
      ELSE tag

\* the try block of determineType, from what it reads of the element: its
\* tagName, getAttribute('type'), getAttribute('role') and className
determineTypeOf(tagName, typeAttribute, role, className) ==
  LET tag == ToLowerCase(tagName)
      inputType == IF typeAttribute.isNull THEN "" ELSE typeAttribute.str
      classList == ToLowerCase(className)
  IN  IF tag = "input" THEN
        CASE inputType = "checkbox" -> "checkbox"
          [] inputType = "radio" -> "radio-button"
          [] inputType = "text" -> "text-input"
          [] inputType = "number" -> "stepper"
          [] inputType = "range" -> "slider"
          [] inputType = "file" -> "file-upload"
          [] OTHER -> "input"
      ELSE IF tag = "select" THEN "dropdown"
      ELSE IF tag = "textarea" THEN "textarea"
      ELSE IF role = Str("switch") THEN "switch"
      ELSE IF role = Str("slider") THEN "slider"
      ELSE IF Includes(classList, "quantity") THEN "stepper"
      ELSE IF Includes(classList, "toggle") THEN "toggle"
      ELSE IF tag = "a" THEN "link"
      ELSE IF tag = "button" THEN "button"
      ELSE IF tag = "span" THEN "span"
      ELSE tag

determineType(A, f, e) ==
  IF TagNameThrows(f, e) THEN "unknown"
  ELSE determineTypeOf(TagName(e), getAttribute(A, e, "type"), getAttribute(A, e, "role"),
                       ClassName(e))

\* the text of selectedOptions[0]
SelectedOptionText(si) == Options[si].text

\* the try block of determineAction, from what it reads of the element: its
\* tagName, the textContent of selectedOptions[0] (null without one),
\* getAttribute('aria-label'), textContent and getAttribute('title')
determineActionOf(tagName, selectedOption, ariaLabel, text, title) ==
  LET tag == ToLowerCase(tagName)
  IN  IF tag = "select" /\ ~selectedOption.isNull /\ selectedOption.str # ""
        THEN Trim(selectedOption.str)
      ELSE IF ~ariaLabel.isNull /\ ariaLabel.str # "" /\ Trim(ariaLabel.str) # ""
        THEN Trim(ariaLabel.str)
      ELSE IF Trim(text) # "" THEN Trim(text)
      ELSE IF ~title.isNull /\ title.str # "" /\ Trim(title.str) # ""
        THEN Trim(title.str)
      ELSE tag \o "-element"

determineAction(A, T, att, f, si, e) ==
  IF TagNameThrows(f, e) THEN [threw |-> TRUE, str |-> ""]
  ELSE [threw |-> FALSE,
        str |-> determineActionOf(TagName(e), Str(SelectedOptionText(si)),
                                  getAttribute(A, e, "aria-label"), textContent(T, att, e),
                                  getAttribute(A, e, "title"))]

HeadingTags == {"h1", "h2", "h3", "h4", "h5", "h6"}

\* per element: the headings below it in the page's markup, in document order
HeadingsUnder ==
  [p \in Elements |->
     LET Test(d) == d # p /\ LocalName(d) \in HeadingTags IN SelectSeq(Subtree[p], Test)]

\* parent.querySelector('h1, h2, h3, h4, h5, h6'): the first attached one
QueryHeading(att, p) ==
  LET Test(d) == d \in att
      hs == SelectSeq(HeadingsUnder[p], Test)
  IN  IF hs = <<>> THEN NoNode ELSE hs[1]

\* one turn of the loop of determineContext with the class tests first
contextAt_ClassBeforeTag(parentTag, classes, headingText) ==
  IF Includes(classes, "footer") THEN "footer"
  ELSE IF Includes(classes, "hero") THEN "hero"
  ELSE IF Includes(classes, "header") THEN "header"
  ELSE IF Includes(classes, "sidebar") THEN "sidebar"
  ELSE IF Includes(classes, "nav") THEN "navigation"
  ELSE IF parentTag = "header" THEN "header"
  ELSE IF parentTag = "footer" THEN "footer"
  ELSE IF parentTag = "nav" THEN "navigation"
  ELSE IF parentTag = "aside" THEN "sidebar"
  ELSE IF headingText # "" THEN Hyphenate(ToLowerCase(Trim(headingText)))
  ELSE ""

\* one turn of the loop of determineContext: the context the parent gives,
\* "" when the loop goes on; headingText is the text of the first heading
\* inside the parent, "" when it has none
contextAt(parentTag, classes, headingText) ==
  IF parentTag = "header" THEN "header"
  ELSE IF parentTag = "footer" THEN "footer"
  ELSE IF parentTag = "nav" THEN "navigation"
  ELSE IF parentTag = "aside" THEN "sidebar"
  ELSE IF Includes(classes, "footer") THEN "footer"
  ELSE IF Includes(classes, "hero") THEN "hero"
  ELSE IF Includes(classes, "header") THEN "header"
  ELSE IF Includes(classes, "sidebar") THEN "sidebar"
  ELSE IF Includes(classes, "nav") THEN "navigation"
  ELSE IF headingText # "" THEN Hyphenate(ToLowerCase(Trim(headingText)))
  ELSE ""

RECURSIVE ContextWalk(_, _, _, _)
\* the while loop of determineContext: the signal found, "" for none, or a throw
ContextWalk(T, att, f, current) ==
  IF current = NoNode \/ current = "body" THEN [threw |-> FALSE, str |-> ""]
  ELSE
    LET parent == parentElement(att, current) IN
    IF parent = NoNode THEN [threw |-> FALSE, str |-> ""]
    ELSE IF TagNameThrows(f, parent) THEN [threw |-> TRUE, str |-> ""]
    ELSE
      LET heading == QueryHeading(att, parent)
          headingText == IF heading = NoNode THEN "" ELSE textContent(T, att, heading)
          Then(context) ==
            IF context # "" \/ headingText # "" THEN [threw |-> FALSE, str |-> context]
            ELSE ContextWalk(T, att, f, parent)
      IN  Apply(contextAt(lowerTagName[parent], lowerClassName[parent], headingText), Then)

\* determineContext applying the position test to every context found
determineContext_FiltersAll(T, att, f, e) ==
  LET walk == ContextWalk(T, att, f, e)
      absoluteTop == RectTop(e) + PageYOffset
      pageHeight == Max(DocumentScrollHeight, BodyScrollHeight)
      context == IF 4 * absoluteTop > pageHeight THEN "" ELSE walk.str
  IN  IF walk.threw \/ context = "" THEN "main-content" ELSE context

\* determineContext starting its walk at the element's own classes
determineContext_OwnClass(T, att, f, e) ==
  LET walk == IF Includes(lowerClassName[e], "hero")
              THEN [threw |-> FALSE, str |-> "hero"] ELSE ContextWalk(T, att, f, e)
      absoluteTop == RectTop(e) + PageYOffset
      absoluteBottom == RectBottom(e) + PageYOffset
      pageHeight == Max(DocumentScrollHeight, BodyScrollHeight)
      context ==
        IF walk.str \in {"hero", "header"} /\ 4 * absoluteTop > pageHeight THEN ""
        ELSE IF walk.str = "footer" /\ 4 * absoluteBottom < 3 * pageHeight THEN ""
        ELSE walk.str
  IN  IF walk.threw \/ context = "" THEN "main-content" ELSE context

determineContext(T, att, f, e) ==
  LET walk == ContextWalk(T, att, f, e)
      absoluteTop == RectTop(e) + PageYOffset
      absoluteBottom == RectBottom(e) + PageYOffset
      pageHeight == Max(DocumentScrollHeight, BodyScrollHeight)
      context ==
        IF walk.str \in {"hero", "header"} /\ 4 * absoluteTop > pageHeight THEN ""
        ELSE IF walk.str = "footer" /\ 4 * absoluteBottom < 3 * pageHeight THEN ""
        ELSE walk.str
  IN  IF walk.threw \/ context = "" THEN "main-content" ELSE context

\* the element is marked selected (aria-selected, or a selected/active class)
isSelected(A, e) ==
  \/ hasAttribute(A, e, "aria-selected") /\ A[e]["aria-selected"] = "true"
  \/ ClassListContains(ClassName(e), "selected")
  \/ ClassListContains(ClassName(e), "active")

\* the select branch of determineValue that looks at the selected value only
selectValue_SelectedOnly(optionValues, value) ==
  IF value # "" /\ isValidNumber(value) THEN Str(Trim(value)) ELSE Null

\* the select branch of determineValue, from the values of select.options and
\* select.value
selectValue(optionValues, value) ==
  LET allNumeric ==
        \A i \in 1..Len(optionValues) : optionValues[i] = "" \/ isValidNumber(optionValues[i])
  IN  IF allNumeric /\ value # "" /\ isValidNumber(value) THEN Str(Trim(value)) ELSE Null

determineValue(A, T, att, f, iv, si, e) ==
  IF TagNameThrows(f, e) THEN Null
  ELSE
    LET tag == lowerTagName[e]
        inputType == getAttributeOrEmpty(A, e, "type")
        parent == parentElement(att, e)
        text == Trim(textContent(T, att, e))
    IN  IF tag = "input" /\ inputType = "number"
          THEN (IF isValidNumber(iv) THEN Str(Trim(iv)) ELSE Null)
        ELSE IF /\ tag = "select"
                /\ ~selectValue([i \in 1..Len(Options) |-> Options[i].value],
                                Options[si].value).isNull
          THEN selectValue([i \in 1..Len(Options) |-> Options[i].value], Options[si].value)
        ELSE IF /\ tag = "li"
                /\ parent # NoNode
                /\ ~TagNameThrows(f, parent)
                /\ lowerTagName[parent] = "ul"
                /\ hasAttribute(A, parent, "role") /\ A[parent]["role"] = "presentation"
                /\ isSelected(A, e)
                /\ attributeTruthy(A, e, "data-value") /\ isValidNumber(A[e]["data-value"])
          THEN Str(Trim(A[e]["data-value"]))
        ELSE IF /\ tag \in {"div", "span"}
                /\ hasAttribute(A, e, "role") /\ A[e]["role"] = "option"
                /\ isSelected(A, e)
                /\ text # "" /\ isValidNumber(text)
          THEN Str(text)
        ELSE Null

(***************************************************************************)
(* The constructor and the configuration.                                  *)
(***************************************************************************)
defaultSelectors == <<"a", "button", "span">>

defaultAttributes ==
  [type |-> "data-type", action |-> "data-action",
   context |-> "data-context", value |-> "data-value"]

Roles == {"type", "action", "context", "value"}

\* new DOMTagger(input): input holds the keys the caller supplied
Constructor(input) ==
  [selectors |-> IF "selectors" \in DOMAIN input THEN input.selectors ELSE defaultSelectors,
   attributes |-> [r \in Roles |->
                     IF "attributes" \in DOMAIN input /\ r \in DOMAIN input.attributes
                     THEN input.attributes[r] ELSE defaultAttributes[r]],
   debug |-> IF "debug" \in DOMAIN input THEN input.debug ELSE FALSE]

\* the selector list of the unit tests, type selectors only
TestSelectors == <<"input", "button", "span", "a", "select", "textarea">>

\* the value of a property that was supplied as undefined
undefined == "<undefined>"

\* no function is applied on its own
NoProbe == [applied |-> FALSE]

ConfigInputs ==
  { [debug |-> FALSE],
    [selectors |-> TestSelectors],
    [attributes |-> [action |-> "data-track-action"]],
    [attributes |-> [type |-> "data-kind"]] }

\* Element.matches(selector), for a type selector
matches(e, selector) == LocalName(e) = selector

MatchesAny(cfg, e) == \E i \in 1..Len(cfg.selectors) : matches(e, cfg.selectors[i])

\* document.querySelectorAll(selectors.join(',')): attached matches in document order
querySelectorAll(cfg, att) ==
  LET Test(e) == e \in att /\ MatchesAny(cfg, e) IN SelectSeq(DocOrder, Test)

(***************************************************************************)
(* Tagging.                                                                *)
(***************************************************************************)
\* isElementTagged also asking for the value attribute
isElementTagged_NeedsValue(cfg, A, e) ==
  /\ hasAttribute(A, e, cfg.attributes.type)
  /\ hasAttribute(A, e, cfg.attributes.action)
  /\ hasAttribute(A, e, cfg.attributes.context)
  /\ hasAttribute(A, e, cfg.attributes.value)

isElementTagged(cfg, A, e) ==
  /\ hasAttribute(A, e, cfg.attributes.type)
  /\ hasAttribute(A, e, cfg.attributes.action)
  /\ hasAttribute(A, e, cfg.attributes.context)

getTaggedElement(cfg, A, e) ==
  [element |-> e,
   type |-> getAttributeOrEmpty(A, e, cfg.attributes.type),
   action |-> getAttributeOrEmpty(A, e, cfg.attributes.action),
   context |-> getAttributeOrEmpty(A, e, cfg.attributes.context),
   value |-> getAttributeOrEmpty(A, e, cfg.attributes.value)]

\* what a call that threw returned
NoReturn == [element |-> NoNode, type |-> "", action |-> "", context |-> "", value |-> ""]

\* element.setAttribute throws
SetAttributeThrows(f, e) == f[e] = "setAttribute"

\* tagElement writing the type without looking for an existing one
WriteMissing_Overwrite(cfg, A, e, type, action, context, value) ==
  LET A1 == setAttribute(A, e, cfg.attributes.type, type)
      A2 == IF hasAttribute(A1, e, cfg.attributes.action) THEN A1
            ELSE setAttribute(A1, e, cfg.attributes.action, action)
      A3 == IF hasAttribute(A2, e, cfg.attributes.context) THEN A2
            ELSE setAttribute(A2, e, cfg.attributes.context, context)
  IN  IF value.isNull \/ hasAttribute(A3, e, cfg.attributes.value) THEN A3
      ELSE setAttribute(A3, e, cfg.attributes.value, value.str)

\* the four guarded setAttribute calls of tagElement
WriteMissing(cfg, A, e, type, action, context, value) ==
  LET A1 == IF hasAttribute(A, e, cfg.attributes.type) THEN A
            ELSE setAttribute(A, e, cfg.attributes.type, type)
      A2 == IF hasAttribute(A1, e, cfg.attributes.action) THEN A1
            ELSE setAttribute(A1, e, cfg.attributes.action, action)
      A3 == IF hasAttribute(A2, e, cfg.attributes.context) THEN A2
            ELSE setAttribute(A2, e, cfg.attributes.context, context)
  IN  IF value.isNull \/ hasAttribute(A3, e, cfg.attributes.value) THEN A3
      ELSE setAttribute(A3, e, cfg.attributes.value, value.str)

\* tagElement: the attribute map after the call, what it returned, whether an
\* exception left it, and whether one was caught inside it
tagElement(cfg, A, T, att, f, iv, si, e) ==
  IF isElementTagged(cfg, A, e)
  THEN [attrs |-> A, ret |-> getTaggedElement(cfg, A, e), threw |-> FALSE, caught |-> FALSE]
  ELSE
    LET type == determineType(A, f, e)
        action == determineAction(A, T, att, f, si, e)
        context == determineContext(T, att, f, e)
        value == determineValue(A, T, att, f, iv, si, e)
        \* an untagged element lacks a mandatory attribute, so a write is attempted
        failed == action.threw \/ SetAttributeThrows(f, e)
    IN  IF failed
        THEN IF TagNameThrows(f, e)
             THEN [attrs |-> A, ret |-> NoReturn, threw |-> TRUE, caught |-> TRUE]
             ELSE [attrs |-> A,
                   ret |-> [element |-> e, type |-> lowerTagName[e],
                            action |-> "unknown-element", context |-> "main-content",
                            value |-> ""],
                   threw |-> FALSE, caught |-> TRUE]
        ELSE [attrs |-> WriteMissing(cfg, A, e, type, action.str, context, value),
              ret |-> [element |-> e, type |-> type, action |-> action.str,
                       context |-> context, value |-> value.str],
              threw |-> FALSE,
              caught |-> ContextWalk(T, att, f, e).threw]

RECURSIVE TagEach(_, _, _, _, _, _, _, _, _, _)
\* the forEach of tagExistingElements from position i on; it ends at the first
\* call that throws
TagEach(cfg, A, T, att, f, iv, si, elements, i, caught) ==
  IF i > Len(elements) THEN [attrs |-> A, caught |-> caught]
  ELSE IF ~IsHTMLElement(elements[i])
    THEN TagEach(cfg, A, T, att, f, iv, si, elements, i + 1, caught)
  ELSE LET Rest(r) ==
             IF r.threw THEN [attrs |-> r.attrs, caught |-> TRUE]
             ELSE TagEach(cfg, r.attrs, T, att, f, iv, si, elements, i + 1, caught \/ r.caught)
       IN  Apply(tagElement(cfg, A, T, att, f, iv, si, elements[i]), Rest)

tagExistingElements(cfg, A, T, att, f, iv, si) ==
  LET Each(elements) == TagEach(cfg, A, T, att, f, iv, si, elements, 1, FALSE)
  IN  Apply(querySelectorAll(cfg, att), Each)

\* getTaggedElements without the instanceof HTMLElement test
getTaggedElements_AnyElement(cfg, A, att) ==
  LET elements == querySelectorAll(cfg, att)
      Test(e) == isElementTagged(cfg, A, e)
      tagged == SelectSeq(elements, Test)
  IN  [i \in 1..Len(tagged) |-> getTaggedElement(cfg, A, tagged[i])]

getTaggedElements(cfg, A, att) ==
  LET elements == querySelectorAll(cfg, att)
      Test(e) == IsHTMLElement(e) /\ isElementTagged(cfg, A, e)
      tagged == SelectSeq(elements, Test)
  IN  [i \in 1..Len(tagged) |-> getTaggedElement(cfg, A, tagged[i])]

\* the function-valued properties every object literal inherits
ObjectPrototypeKeys ==
  {"constructor", "toString", "valueOf", "hasOwnProperty", "isPrototypeOf",
   "propertyIsEnumerable", "toLocaleString"}

\* String(f) for the inherited function found under a key
FunctionSource(key) ==
  "function " \o (IF key = "constructor" THEN "Object" ELSE key) \o "() { [native code] }"

\* JavaScript values held by a counts object: a number or a string
JSNumber(n) == [t |-> "number", n |-> n, s |-> ""]
JSString(str) == [t |-> "string", n |-> 0, s |-> str]

\* (counts[key] || 0) + 1 for counts created as {}
Increment(counts, key) ==
  IF key \in DOMAIN counts
  THEN IF counts[key].t = "number" THEN JSNumber(counts[key].n + 1)
       ELSE JSString(counts[key].s \o "1")
  ELSE IF key \in ObjectPrototypeKeys THEN JSString(FunctionSource(key) \o "1")
       ELSE JSNumber(1)

RECURSIVE CountEach(_, _, _, _)
\* taggedElements.forEach(...) for one of the three mappings
CountEach(counts, taggedElements, field, i) ==
  IF i > Len(taggedElements) THEN counts
  ELSE LET key == taggedElements[i][field]
           Rest(c) == CountEach(c, taggedElements, field, i + 1)
       IN  Apply([k \in DOMAIN counts \cup {key} |->
                    IF k = key THEN Increment(counts, key) ELSE counts[k]], Rest)

getStats(cfg, A, att) ==
  LET elements == querySelectorAll(cfg, att)
      taggedElements == getTaggedElements(cfg, A, att)
      Empty == [k \in {} |-> JSNumber(0)]
  IN  [total |-> Len(elements),
       tagged |-> Len(taggedElements),
       types |-> CountEach(Empty, taggedElements, "type", 1),
       actions |-> CountEach(Empty, taggedElements, "action", 1),
       contexts |-> CountEach(Empty, taggedElements, "context", 1)]

(***************************************************************************)
(* The click walk and the pushes to window.dataLayer.                      *)
(***************************************************************************)
\* a walk that visits one node more
maxTraversalDepth_Eleven == 10 + 1

maxTraversalDepth == 10

\* an object without properties
EmptyObject == [k \in {} |-> ""]

\* obj[key] = value
Put(obj, key, value) == [k \in (DOMAIN obj) \cup {key} |-> IF k = key THEN value ELSE obj[k]]

\* what one visited node adds to eventObject
Collect(A, node, eventObject) ==
  IF ~IsElementNode(node) THEN eventObject
  ELSE
    LET o1 == IF attributeTruthy(A, node, "data-action")
              THEN Put(eventObject, "action", A[node]["data-action"]) ELSE eventObject
        o2 == IF attributeTruthy(A, node, "data-context")
              THEN Put(o1, "context", A[node]["data-context"]) ELSE o1
        o3 == IF attributeTruthy(A, node, "data-type")
              THEN Put(o2, "type", A[node]["data-type"]) ELSE o2
    IN  IF attributeTruthy(A, node, "data-value")
        THEN Put(o3, "value", A[node]["data-value"]) ELSE o3

\* the node sets hasAnalyticsData
HasAnalytics(A, node) ==
  /\ IsElementNode(node)
  /\ attributeTruthy(A, node, "data-action") \/ attributeTruthy(A, node, "data-context")

RECURSIVE Traverse(_, _, _, _, _, _)
\* the while loop of extractAndPushAnalytics
Traverse(A, att, currentNode, currentDepth, eventObject, hasAnalyticsData) ==
  IF currentDepth < maxTraversalDepth /\ currentNode # NoNode
  THEN Traverse(A, att, parentNode(att, currentNode), currentDepth + 1,
                Collect(A, currentNode, eventObject),
                hasAnalyticsData \/ HasAnalytics(A, currentNode))
  ELSE [eventObject |-> eventObject, hasAnalyticsData |-> hasAnalyticsData]

\* window.dataLayer = window.dataLayer || []; window.dataLayer.push(record)
Push(dl, record) == [defined |-> TRUE, items |-> Append(dl.items, record)]

pushToDataLayer(dl, eventObject, t) ==
  Push(dl, [event |-> "click_event", click_object |-> eventObject, timestamp |-> t])

\* extractAndPushAnalytics: window.dataLayer after the call, and whether the
\* call caught an exception
extractAndPushAnalytics(A, att, perf, dl, t, clickedElement) ==
  IF ~perf THEN [dataLayer |-> dl, caught |-> TRUE]
  ELSE
    LET Emit(r) ==
          [dataLayer |-> IF r.hasAnalyticsData THEN pushToDataLayer(dl, r.eventObject, t)
                         ELSE dl,
           caught |-> FALSE]
    IN  Apply(Traverse(A, att, clickedElement, 0, EmptyObject, FALSE), Emit)

\* a reading of Date.now(): the instants are not told apart
Instant == "Date.now()"

\* performance.memory.usedJSHeapSize, in bytes
UsedJSHeapSize == 5242880

\* Math.round(x * 100) / 100 of a quotient num / den >= 0, in hundredths
RoundHundredths(num, den) == (200 * num + den) \div (2 * den)

\* getMemoryUsage, in hundredths of a megabyte
getMemoryUsage(mem) == IF mem THEN RoundHundredths(UsedJSHeapSize, 1024 * 1024) ELSE 0

\* endTime - startTime of init, in microseconds
InitDurations == {50864}

pushPerformanceEvent(dl, metrics, t) ==
  IF metrics = <<>> THEN dl
  ELSE Push(dl, [event |-> "tagger_performance", performance |-> metrics[1], timestamp |-> t])

(***************************************************************************)
(* The pages and hosts the tagger starts in.                               *)
(***************************************************************************)
NoAttributes == [k \in {} |-> ""]

\* the attributes written in the page's markup, by hand
Markup(preset) ==
  [e \in Elements |->
     CASE e = "num" -> [type |-> "number"]
       [] preset = "manualBody" /\ e = "body"
            -> ("data-action" :> "page") @@ ("data-type" :> "layout") @@ ("data-value" :> "7")
       [] preset = "manualBody" /\ e = "heroBtn" -> ("data-type" :> "custom")
       [] preset = "manualBody" /\ e = "b1" -> ("data-action" :> "Save")
       [] preset = "manualBody" /\ e = "secLink"
            -> ("data-value" :> "3") @@ ("data-context" :> "promo")
       [] preset = "manualBody" /\ e = "svgA"
            -> ("data-type" :> "icon") @@ ("data-action" :> "Open") @@ ("data-context" :> "nav")
       [] preset = "manualHtml" /\ e = "b1" -> ("data-type" :> "constructor")
       [] preset = "manualHtml" /\ e = "html"
            -> ("data-context" :> "site") @@ ("data-type" :> "root")
       [] OTHER -> NoAttributes]

Presets == {"plain", "manualBody", "manualHtml"}

\* the elements of the landing page and of the form page, before any insertion
\* the article page: sections of every kind around its links and buttons
ArticlePage ==
  {"html", "body", "topBtn", "hdr", "hdrLink", "hdrLow", "side", "sideBtn", "lowHero",
   "lowHeroBtn", "fh", "fhLink", "footEdge", "footHigh", "hn", "hnLink", "sn", "snH",
   "snLink", "menu", "menuLink", "art", "artH", "artBtn"}

LandingPage == Elements \ ({"num", "sel"} \cup Dynamic \cup (ArticlePage \ {"html", "body"}))
FormPage == {"html", "body", "num", "sel"}

FaultKinds == {"none", "setAttribute", "tagName"}

\* the element whose properties a page script may have corrupted
Faulty == "b1"

InitialText ==
  [e \in Elements |->
     CASE e = "b1" -> "Save"
       [] e = "heroBtn" -> "Buy Now"
       [] e = "secLink" -> " Learn more "
       [] e = "sel" -> " One Two"
       [] e = "svgA" -> "Icon"
       [] e = "dyn" -> "Later"
       [] e = "deep" -> "Deep"
       [] e = "topBtn" -> "Top"
       [] e = "artH" -> " Pricing  Plans "
       [] e = "snH" -> "Other"
       [] e = "fhLink" -> "Imprint"
       [] OTHER -> ""]

\* the texts a page script gives the hero button
HeroTexts == {"Buy Now", " Sold  Out "}

\* what the user types into the number input, or a script assigns to it
InputValues == {"", "42", "abc"}

Init ==
  /\ \E input \in ConfigInputs, preset \in Presets, fk \in FaultKinds :
       /\ input # [debug |-> FALSE] => preset = "plain"
       /\ attached \in {LandingPage, FormPage, ArticlePage}
       /\ attached = ArticlePage =>
            input = [debug |-> FALSE] /\ preset = "plain" /\ fk = "none"
       /\ "selectors" \in DOMAIN input => attached = FormPage
       /\ "attributes" \in DOMAIN input => attached = LandingPage
       /\ attached = FormPage => preset = "plain" /\ fk = "none"
       /\ fk # "none" => preset = "manualBody"
       /\ config = Constructor(input)
       /\ attributes = Markup(preset)
       /\ fault = [e \in Elements |-> IF e = Faulty THEN fk ELSE "none"]
       /\ performanceApi \in BOOLEAN
       /\ attached \in {FormPage, ArticlePage} => performanceApi
       /\ ~performanceApi => input = [debug |-> FALSE] /\ fk = "none" /\ preset = "plain"
       /\ input = [attributes |-> [type |-> "data-kind"]] => performanceApi
       /\ memoryApi = (preset # "manualHtml")
  /\ ownText = InitialText
  /\ inputValue = [assigned |-> "", value |-> ""]
  /\ selectedIndex = 1
  /\ dataLayer \in {[defined |-> FALSE, items |-> <<>>], [defined |-> TRUE, items |-> <<>>]}
  /\ attached \in {FormPage, ArticlePage} => ~dataLayer.defined
  /\ config.attributes.type # defaultAttributes.type => dataLayer.defined
  /\ listeners = <<>>
  /\ performanceMetrics = <<>>
  /\ last = [op |-> "new", target |-> NoNode, threw |-> FALSE, caught |-> FALSE,
             ret |-> NoReturn]
  /\ probe = NoProbe

(***************************************************************************)
(* The operations.                                                         *)
(***************************************************************************)
Outcome(op, target, threw, caught, ret) ==
  [op |-> op, target |-> target, threw |-> threw, caught |-> caught, ret |-> ret]

\* the function values the constructor stores: handleClick.bind(this) and
\* handleChange.bind(this), bound once
clickHandler == [fn |-> "handleClick", bound |-> 0]
changeHandler == [fn |-> "handleChange", bound |-> 0]

\* EventTarget.addEventListener: a listener with the same type, callback and
\* capture flag as one already in the list is not added again
addEventListener(L, type, callback, capture) ==
  LET listener == [type |-> type, callback |-> callback, capture |-> capture]
  IN  IF \E i \in 1..Len(L) : L[i] = listener THEN L ELSE Append(L, listener)

\* EventTarget.removeEventListener
removeEventListener(L, type, callback, capture) ==
  LET Other(l) == l # [type |-> type, callback |-> callback, capture |-> capture]
  IN  SelectSeq(L, Other)

\* the callbacks document invokes for an event of the type, in order
ListenersFor(L, type) ==
  LET Of(l) == l.type = type IN SelectSeq(L, Of)

\* setupClickListener binding handleClick anew on every call
setupClickListener_BindsAgain(L) ==
  addEventListener(L, "click", [fn |-> "handleClick", bound |-> Len(L) + 1], TRUE)

setupClickListener(L) == addEventListener(L, "click", clickHandler, TRUE)

setupChangeListener(L) == addEventListener(L, "change", changeHandler, TRUE)

\* init without its try/catch
InitPropagates_Rethrow(bodyThrew) == bodyThrew

\* what init lets escape to its caller, given that its body threw
InitPropagates(bodyThrew) == FALSE

\* tagger.init()
TaggerInit ==
  IF ~performanceApi
  THEN /\ last' = Outcome("init", NoNode, InitPropagates(TRUE), TRUE, NoReturn)
       /\ UNCHANGED <<envVars, domVars, dataLayer, listeners, performanceMetrics>>
  ELSE /\ Len(dataLayer.items) < MaxSink
       /\ \E d \in InitDurations,
             tagged \in {tagExistingElements(config, attributes, ownText, attached, fault,
                                             inputValue.value, selectedIndex)} :
            LET metrics ==
                  [init_time_ms |-> RoundHundredths(d, 1000),
                   total_elements_tagged |->
                     Len(getTaggedElements(config, tagged.attrs, attached)),
                   total_page_memory_mb |-> getMemoryUsage(memoryApi),
                   timestamp |-> Instant]
            IN  /\ attributes' = tagged.attrs
                /\ listeners' = setupChangeListener(setupClickListener(listeners))
                /\ performanceMetrics' = <<metrics>>
                /\ dataLayer' = pushPerformanceEvent(dataLayer, <<metrics>>, Instant)
                /\ last' = Outcome("init", NoNode, InitPropagates(FALSE), tagged.caught, NoReturn)
       /\ UNCHANGED <<envVars, ownText, inputValue, selectedIndex, attached>>

\* tagger.getPerformanceMetrics(): <<>> for null, <<snapshot>> otherwise
getPerformanceMetrics == performanceMetrics

\* handleClick: the attribute map and window.dataLayer after it, whether it
\* caught an exception, and what its tagElement call returned
handleClick(cfg, A, T, att, f, iv, si, perf, dl, t, target) ==
  LET untouched == [attrs |-> A, ret |-> NoReturn, threw |-> FALSE, caught |-> FALSE]
      Extract(tagged) ==
        LET Result(pushed) ==
              [attrs |-> tagged.attrs, dataLayer |-> pushed.dataLayer,
               caught |-> tagged.caught \/ pushed.caught, ret |-> tagged.ret]
        IN  IF tagged.threw
            THEN [attrs |-> tagged.attrs, dataLayer |-> dl, caught |-> TRUE, ret |-> NoReturn]
            ELSE Apply(extractAndPushAnalytics(tagged.attrs, att, perf, dl, t, target), Result)
  IN  Apply(IF MatchesAny(cfg, target)
            THEN tagElement(cfg, A, T, att, f, iv, si, target) ELSE untouched, Extract)

ClickTargets == {"b1", "heroBtn", "dyn", "c9", "deep", "num"}

RECURSIVE DispatchClick(_, _, _)
\* document invokes the click callbacks in order, each on what the one before left
DispatchClick(callbacks, r, target) ==
  IF callbacks = <<>> THEN r
  ELSE
    LET Rest(h) ==
          DispatchClick(Tail(callbacks),
                        [attrs |-> h.attrs, dataLayer |-> h.dataLayer,
                         caught |-> r.caught \/ h.caught, ret |-> h.ret], target)
    IN  Apply(handleClick(config, r.attrs, ownText, attached, fault, inputValue.value,
                          selectedIndex, performanceApi, r.dataLayer, Instant, target), Rest)

\* the user clicks an element of the document
Click(target) ==
  /\ target \in attached
  /\ \E r \in {DispatchClick(ListenersFor(listeners, "click"),
                              [attrs |-> attributes, dataLayer |-> dataLayer,
                               caught |-> FALSE, ret |-> NoReturn], target)} :
       /\ Len(r.dataLayer.items) <= MaxSink
       /\ attributes' = r.attrs
       /\ dataLayer' = r.dataLayer
       /\ last' = Outcome("click", target, FALSE, r.caught, r.ret)
  /\ UNCHANGED <<envVars, ownText, inputValue, selectedIndex, attached, listeners,
                 performanceMetrics>>

\* updateSelectAction writing the action only where none exists
updateSelectAction_OnlyIfMissing(cfg, A, f, si, selectElement) ==
  IF /\ SelectedOptionText(si) # ""
     /\ ~SetAttributeThrows(f, selectElement)
     /\ ~hasAttribute(A, selectElement, cfg.attributes.action)
  THEN setAttribute(A, selectElement, cfg.attributes.action, Trim(SelectedOptionText(si)))
  ELSE A

updateSelectAction(cfg, A, f, si, selectElement) ==
  IF SelectedOptionText(si) # "" /\ ~SetAttributeThrows(f, selectElement)
  THEN setAttribute(A, selectElement, cfg.attributes.action, Trim(SelectedOptionText(si)))
  ELSE A

\* updateNumberInputValue writing the action attribute
updateNumberInputValue_WritesAction(cfg, A, f, iv, inputElement) ==
  IF Trim(iv) # "" /\ ~SetAttributeThrows(f, inputElement)
  THEN setAttribute(A, inputElement, cfg.attributes.action, Trim(iv))
  ELSE A

\* updateNumberInputValue without the test for an empty value
updateNumberInputValue_ClearsOnEmpty(cfg, A, f, iv, inputElement) ==
  IF ~SetAttributeThrows(f, inputElement)
  THEN setAttribute(A, inputElement, cfg.attributes.value, Trim(iv))
  ELSE A

updateNumberInputValue(cfg, A, f, iv, inputElement) ==
  IF Trim(iv) # "" /\ ~SetAttributeThrows(f, inputElement)
  THEN setAttribute(A, inputElement, cfg.attributes.value, Trim(iv))
  ELSE A

\* handleChange: the attribute map after it
handleChange(cfg, A, f, iv, si, target) ==
  IF TagNameThrows(f, target) THEN A
  ELSE
    LET tag == lowerTagName[target]
        A1 == IF tag = "select" THEN updateSelectAction(cfg, A, f, si, target) ELSE A
    IN  IF tag = "input" /\ hasAttribute(A1, target, "type") /\ A1[target]["type"] = "number"
        THEN updateNumberInputValue(cfg, A1, f, iv, target) ELSE A1

ChangeTargets == {"num", "sel"}

RECURSIVE DispatchChange(_, _, _)
\* document invokes the change callbacks in order
DispatchChange(callbacks, A, target) ==
  IF callbacks = <<>> THEN A
  ELSE
    LET Rest(A1) == DispatchChange(Tail(callbacks), A1, target)
    IN  Apply(handleChange(config, A, fault, inputValue.value, selectedIndex, target), Rest)

\* a change event is dispatched at a form control
Change(target) ==
  /\ target \in attached
  /\ attributes' = DispatchChange(ListenersFor(listeners, "change"), attributes, target)
  /\ last' = Outcome("change", target, FALSE, FALSE, NoReturn)
  /\ UNCHANGED <<envVars, ownText, inputValue, selectedIndex, attached, dataLayer,
                 listeners, performanceMetrics>>

\* element.removeAttribute(name)
removeAttribute(A, e, name) ==
  [A EXCEPT ![e] = [k \in (DOMAIN A[e]) \ {name} |-> A[e][k]]]

\* clearTags leaving the value attribute in place
RemoveFour_KeepsValue(cfg, A, e) ==
  removeAttribute(
    removeAttribute(
      removeAttribute(A, e, cfg.attributes.type),
      e, cfg.attributes.action),
    e, cfg.attributes.context)

\* the four removeAttribute calls of clearTags on one element
RemoveFour(cfg, A, e) ==
  removeAttribute(
    removeAttribute(
      removeAttribute(
        removeAttribute(A, e, cfg.attributes.type),
        e, cfg.attributes.action),
      e, cfg.attributes.context),
    e, cfg.attributes.value)

RECURSIVE ClearEach(_, _, _, _)
\* the forEach of clearTags from position i on
ClearEach(cfg, A, elements, i) ==
  IF i > Len(elements) THEN A
  ELSE LET Rest(A1) == ClearEach(cfg, A1, elements, i + 1)
       IN  Apply(IF IsHTMLElement(elements[i]) THEN RemoveFour(cfg, A, elements[i]) ELSE A,
                 Rest)

\* clearTags: the attribute map after it
clearTags(cfg, A, att) ==
  LET Each(elements) == ClearEach(cfg, A, elements, 1)
  IN  Apply(querySelectorAll(cfg, att), Each)

\* tagger.clearTags()
ClearTags ==
  /\ attributes' = clearTags(config, attributes, attached)
  /\ last' = Outcome("clearTags", NoNode, FALSE, FALSE, NoReturn)
  /\ UNCHANGED <<envVars, ownText, inputValue, selectedIndex, attached, dataLayer,
                 listeners, performanceMetrics>>

\* tagger.getStats(), which calls getTaggedElements
GetStats ==
  /\ last' = Outcome("getStats", NoNode, FALSE, FALSE, NoReturn)
  /\ UNCHANGED <<envVars, domVars, dataLayer, listeners, performanceMetrics>>

\* destroy removing the click listener only
Destroy_KeepsChangeListener ==
  /\ listeners' = removeEventListener(listeners, "click", clickHandler, TRUE)
  /\ last' = Outcome("destroy", NoNode, FALSE, FALSE, NoReturn)
  /\ UNCHANGED <<envVars, domVars, dataLayer, performanceMetrics>>

\* tagger.destroy()
Destroy ==
  /\ listeners' = removeEventListener(
                    removeEventListener(listeners, "click", clickHandler, TRUE),
                    "change", changeHandler, TRUE)
  /\ last' = Outcome("destroy", NoNode, FALSE, FALSE, NoReturn)
  /\ UNCHANGED <<envVars, domVars, dataLayer, performanceMetrics>>

(***************************************************************************)
(* What the page and the user do to the document.                          *)
(***************************************************************************)
\* a page script replaces the text of the hero button
SetText(text) ==
  /\ "heroBtn" \in attached
  /\ ownText["heroBtn"] # text
  /\ ownText' = [ownText EXCEPT !["heroBtn"] = text]
  /\ last' = Outcome("dom", "heroBtn", FALSE, FALSE, NoReturn)
  /\ UNCHANGED <<envVars, attributes, inputValue, selectedIndex, attached, dataLayer,
                 listeners, performanceMetrics>>

\* the user edits the number input
SetInputValue(value) ==
  /\ "num" \in attached
  /\ inputValue.assigned # value
  /\ inputValue' = [assigned |-> value, value |-> SanitizeNumber(value)]
  /\ last' = Outcome("dom", "num", FALSE, FALSE, NoReturn)
  /\ UNCHANGED <<envVars, attributes, ownText, selectedIndex, attached, dataLayer,
                 listeners, performanceMetrics>>

\* the user selects another option of the select
SelectOption(i) ==
  /\ "sel" \in attached
  /\ selectedIndex # i
  /\ selectedIndex' = i
  /\ last' = Outcome("dom", "sel", FALSE, FALSE, NoReturn)
  /\ UNCHANGED <<envVars, attributes, ownText, inputValue, attached, dataLayer,
                 listeners, performanceMetrics>>

\* a page script inserts an element
Attach(e) ==
  /\ e \notin attached
  /\ attached' = attached \cup {e}
  /\ last' = Outcome("dom", e, FALSE, FALSE, NoReturn)
  /\ UNCHANGED <<envVars, attributes, ownText, inputValue, selectedIndex, dataLayer,
                 listeners, performanceMetrics>>

Next ==
  \/ TaggerInit
  \/ \E target \in ClickTargets : Click(target)
  \/ \E target \in ChangeTargets : Change(target)
  \/ Destroy
  \/ ClearTags
  \/ GetStats
  \/ \E text \in HeroTexts : SetText(text)
  \/ \E value \in InputValues : SetInputValue(value)
  \/ \E i \in 1..Len(Options) : SelectOption(i)
  \/ \E e \in Dynamic : Attach(e)

Spec == Init /\ [][Next]_vars

(***************************************************************************)
(* The constructor on its own, over the configurations a caller can pass.  *)
(***************************************************************************)
\* the names a caller supplies for a role: empty, undefined, or a real name
SuppliedNames == {"", undefined, "data-track"}

\* the attributes objects a caller can pass: any of the four keys, each with
\* a supplied name
SuppliedAttributes == UNION {[keys -> SuppliedNames] : keys \in SUBSET Roles}

\* the configurations passed to the constructor
ConstructorInputs ==
  {[debug |-> TRUE], [selectors |-> TestSelectors]}
    \cup {[attributes |-> a] : a \in SuppliedAttributes}
    \cup {[attributes |-> a, debug |-> TRUE] : a \in SuppliedAttributes}

\* the page and the tagger's other fields while a function is applied on its own
Idle ==
  /\ performanceApi = TRUE /\ memoryApi = TRUE
  /\ fault = [e \in Elements |-> "none"]
  /\ attributes = Markup("plain")
  /\ ownText = InitialText
  /\ inputValue = [assigned |-> "", value |-> ""]
  /\ selectedIndex = 1
  /\ attached = LandingPage
  /\ dataLayer = [defined |-> FALSE, items |-> <<>>]
  /\ listeners = <<>>
  /\ performanceMetrics = <<>>
  /\ last = [op |-> "new", target |-> NoNode, threw |-> FALSE, caught |-> FALSE,
             ret |-> NoReturn]

ConstructorInit ==
  /\ Idle
  /\ config = Constructor([debug |-> FALSE])
  /\ \E input \in ConstructorInputs : probe = [applied |-> FALSE, input |-> input]

\* new DOMTagger(probe.input)
Construct ==
  /\ ~probe.applied
  /\ config' = Constructor(probe.input)
  /\ probe' = [probe EXCEPT !.applied = TRUE]
  /\ UNCHANGED <<performanceApi, memoryApi, fault, domVars, dataLayer, listeners,
                 performanceMetrics, last>>

ConstructorNext == Construct

ConstructorSpec == ConstructorInit /\ [][ConstructorNext]_vars

(***************************************************************************)
(* determineType on its own, over elements of every tag, type attribute,   *)
(* role and class.                                                         *)
(***************************************************************************)
\* tagName as the DOM reports it for an HTML element
ProbeTagNames == {"INPUT", "SELECT", "TEXTAREA", "A", "BUTTON", "SPAN", "DIV"}

ProbeTypeAttributes ==
  {Null} \cup {Str(t) : t \in {"checkbox", "radio", "text", "number", "range", "file", "email"}}

ProbeRoles == {Null} \cup {Str(r) : r \in {"switch", "slider", "button"}}

ProbeClassNames == {"", "quantity-box", "btn Toggle", "card"}

TypeInit ==
  /\ Idle
  /\ config = Constructor([debug |-> FALSE])
  /\ \E tagName \in ProbeTagNames, typeAttribute \in ProbeTypeAttributes,
        role \in ProbeRoles, className \in ProbeClassNames :
        probe = [applied |-> FALSE, tagName |-> tagName, typeAttribute |-> typeAttribute,
                 role |-> role, className |-> className, type |-> ""]

\* this.determineType(element) for the element the probe describes
DetermineType ==
  /\ ~probe.applied
  /\ probe' = [probe EXCEPT !.applied = TRUE,
                            !.type = determineTypeOf(probe.tagName, probe.typeAttribute,
                                                     probe.role, probe.className)]
  /\ UNCHANGED <<config, performanceApi, memoryApi, fault, domVars, dataLayer, listeners,
                 performanceMetrics, last>>

TypeNext == DetermineType

TypeSpec == TypeInit /\ [][TypeNext]_vars

(***************************************************************************)
(* determineAction, and the tagging of a select, on their own: over        *)
(* elements of every label, text and title, and selects of every option    *)
(* list and selection.                                                     *)
(***************************************************************************)
\* the most options a probed select has
MaxOptions == 3

ClassifyInit ==
  /\ Idle
  /\ config = Constructor([debug |-> FALSE])
  /\ \/ \E tagName \in {"SELECT", "BUTTON"},
           selectedOption \in {Null, Str(""), Str("  "), Str(" Two ")},
           ariaLabel \in {Null, Str(""), Str(" "), Str(" Close ")},
           text \in {"", "  ", " Save "},
           title \in {Null, Str(" "), Str("Tip")} :
           probe = [applied |-> FALSE, fn |-> "determineAction", tagName |-> tagName,
                    selectedOption |-> selectedOption, ariaLabel |-> ariaLabel,
                    text |-> text, title |-> title, action |-> ""]
     \/ \E n \in 1..MaxOptions :
           \E optionValues \in [1..n -> {"", "5", " 7 ", "abc"}], selectedIndex0 \in 1..n :
             probe = [applied |-> FALSE, fn |-> "tagElement", optionValues |-> optionValues,
                      value |-> optionValues[selectedIndex0], result |-> Null]

\* this.determineAction(element) for the element the probe describes
DetermineAction ==
  /\ ~probe.applied
  /\ probe.fn = "determineAction"
  /\ probe' = [probe EXCEPT !.applied = TRUE,
                            !.action = determineActionOf(probe.tagName, probe.selectedOption,
                                                         probe.ariaLabel, probe.text,
                                                         probe.title)]
  /\ UNCHANGED <<config, performanceApi, memoryApi, fault, domVars, dataLayer, listeners,
                 performanceMetrics, last>>

\* this.tagElement(select) for the untagged select the probe describes: the
\* value it infers and the attributes it writes
TagSelect ==
  /\ ~probe.applied
  /\ probe.fn = "tagElement"
  /\ \E value \in {selectValue(probe.optionValues, probe.value)} :
       /\ probe' = [probe EXCEPT !.applied = TRUE, !.result = value]
       /\ attributes' = WriteMissing(config, attributes, "sel",
                                     determineTypeOf("SELECT", Null, Null, ""),
                                     determineActionOf("SELECT", Str(probe.value), Null,
                                                       probe.value, Null),
                                     "main-content", value)
  /\ UNCHANGED <<config, performanceApi, memoryApi, fault, ownText, inputValue,
                 selectedIndex, attached, dataLayer, listeners, performanceMetrics, last>>

ClassifyNext == DetermineAction \/ TagSelect

ClassifySpec == ClassifyInit /\ [][ClassifyNext]_vars

(***************************************************************************)
(* Properties.                                                             *)
(***************************************************************************)
RECURSIVE FirstNodes(_, _, _)
\* the first k nodes on the parent chain that starts at n
FirstNodes(att, n, k) ==
  IF k = 0 \/ n = NoNode THEN {}
  ELSE {n} \cup FirstNodes(att, parentNode(att, n), k - 1)

\* the attribute of element e that the configuration names for a role
RoleName(r) == config.attributes[r]

\* the record the step appended to window.dataLayer, when it appended one
Appended == dataLayer'.items[Len(dataLayer'.items)]

\* the step appended exactly one record, of the given kind
AppendsOne(kind) ==
  /\ Len(dataLayer'.items) = Len(dataLayer.items) + 1
  /\ SubSeq(dataLayer'.items, 1, Len(dataLayer.items)) = dataLayer.items
  /\ Appended.event = kind

\* the step is a click that the installed click listener handled
HandledClick == last'.op = "click" /\ ListenersFor(listeners, "click") # <<>>

\* C1: tagging through init's bulk pass or through a click leaves every
\* attribute that an element already had, with its value, and so writes only
\* attributes that were missing.
C1_TaggingWritesOnlyMissing ==
  [][ last'.op \in {"init", "click"} =>
        \A e \in Elements : \A name \in DOMAIN attributes[e] :
          /\ hasAttribute(attributes', e, name)
          /\ attributes'[e][name] = attributes[e][name] ]_vars

\* C1 witness: the hero button had a hand-written type; a tagging pass added
\* the action and the context and kept the type.
C1_Witness ==
  /\ last.op \in {"init", "click"}
  /\ hasAttribute(attributes, "heroBtn", "data-type")
  /\ attributes["heroBtn"]["data-type"] = "custom"
  /\ hasAttribute(attributes, "heroBtn", RoleName("action"))
  /\ hasAttribute(attributes, "heroBtn", RoleName("context"))

\* C2: once an element carries type, action and context, a further tagging
\* pass (init again, a click on it) changes none of its four attributes, adds
\* no value attribute, and a click's tagElement returns the values read back.
C2_RetaggingIsNoOp ==
  [][ last'.op \in {"init", "click"} =>
        \A e \in Elements :
          (\A r \in {"type", "action", "context"} : hasAttribute(attributes, e, RoleName(r))) =>
            /\ \A r \in Roles :
                 /\ hasAttribute(attributes', e, RoleName(r)) = hasAttribute(attributes, e, RoleName(r))
                 /\ getAttributeOrEmpty(attributes', e, RoleName(r))
                      = getAttributeOrEmpty(attributes, e, RoleName(r))
            /\ (HandledClick /\ last'.target = e /\ MatchesAny(config, e)) =>
                 last'.ret = [element |-> e,
                              type |-> getAttributeOrEmpty(attributes, e, RoleName("type")),
                              action |-> getAttributeOrEmpty(attributes, e, RoleName("action")),
                              context |-> getAttributeOrEmpty(attributes, e, RoleName("context")),
                              value |-> getAttributeOrEmpty(attributes, e, RoleName("value"))] ]_vars

\* C2 witness: the hero button was tagged as 'Buy Now', its text was replaced,
\* and a click on it returned the action read back from the attribute.
C2_Witness ==
  /\ last.op = "click"
  /\ last.ret.element = "heroBtn"
  /\ last.ret.action = "Buy Now"
  /\ ownText["heroBtn"] = " Sold  Out "

\* C3: while the listeners are installed, a click appends exactly one
\* click_event if one of the first 10 nodes from the target upward is an
\* element with a non-empty action or context attribute, and nothing otherwise.
C3_ClickEmitsIffPathHasAnalytics ==
  [][ HandledClick =>
        LET visited == FirstNodes(attached, last'.target, 10) \cap Elements
            found == \E n \in visited :
                       \/ attributeTruthy(attributes', n, RoleName("action"))
                       \/ attributeTruthy(attributes', n, RoleName("context"))
        IN  IF found THEN AppendsOne("click_event")
            ELSE dataLayer'.items = dataLayer.items ]_vars

\* C4: from an empty or absent sink, the first record is the
\* tagger_performance record, every later record is a click_event, and
\* records are only ever appended, so click_events stay in click order.
C4_PerformanceFirstThenClicks ==
  [][ /\ Len(dataLayer'.items) >= Len(dataLayer.items)
      /\ SubSeq(dataLayer'.items, 1, Len(dataLayer.items)) = dataLayer.items
      /\ \A i \in 1..Len(dataLayer'.items) :
           dataLayer'.items[i].event =
             IF i = 1 THEN "tagger_performance" ELSE "click_event" ]_vars

\* C5: a click on a matching, not yet tagged element tags it before the walk,
\* so the click_event of that click carries the type, action and context just
\* written to the target (no other visited node carrying analytics attributes).
C5_ClickEventCarriesFreshTags ==
  [][ LET t == last'.target
          written == {r \in {"type", "action", "context"} :
                        /\ ~hasAttribute(attributes, t, RoleName(r))
                        /\ hasAttribute(attributes', t, RoleName(r))}
          others == (FirstNodes(attached, t, 10) \cap Elements) \ {t}
      IN  ( /\ HandledClick
            /\ MatchesAny(config, t)
            /\ written # {}
            /\ \A n \in others : DOMAIN attributes'[n] = {} ) =>
            /\ AppendsOne("click_event")
            /\ \A r \in written :
                 /\ r \in DOMAIN Appended.click_object
                 /\ Appended.click_object[r] = attributes'[t][RoleName(r)] ]_vars

\* C6: the click walk reads at most 10 nodes, the target being the first: a
\* click_event is appended only if one of those has a non-empty action or
\* context, and every value in its payload is that attribute of one of them.
C6_WalkReadsAtMostTenNodes ==
  [][ (HandledClick /\ dataLayer'.items # dataLayer.items) =>
        LET visited == FirstNodes(attached, last'.target, 10) \cap Elements
        IN  /\ AppendsOne("click_event")
            /\ \E n \in visited :
                 \/ attributeTruthy(attributes', n, "data-action")
                 \/ attributeTruthy(attributes', n, "data-context")
            /\ \A r \in DOMAIN Appended.click_object :
                 \E n \in visited :
                   /\ attributeTruthy(attributes', n, "data-" \o r)
                   /\ attributes'[n]["data-" \o r] = Appended.click_object[r] ]_vars

\* C6 witness: a click on the deep button, whose 11th node is the body with
\* a type and a value; the event has the button's type and no value.
C6_Witness ==
  /\ last.op = "click"
  /\ last.ret.element = "deep"
  /\ attributeTruthy(attributes, "body", "data-value")
  /\ Len(dataLayer.items) > 0
  /\ dataLayer.items[Len(dataLayer.items)].event = "click_event"
  /\ dataLayer.items[Len(dataLayer.items)].click_object
       = [action |-> "Deep", context |-> "main-content", type |-> "button"]

\* the page of the hero-button scenario: no hand-written analytics attributes
\* above the button, the default configuration, a host with a timing API
HeroPage ==
  /\ config = Constructor([debug |-> FALSE])
  /\ performanceApi
  /\ "heroBtn" \in attached
  /\ DOMAIN attributes["body"] = {}
  /\ DOMAIN attributes["html"] = {}

\* the button's attributes and the payload of its click, for a context
HeroTags(context) ==
  ("data-type" :> "button") @@ ("data-action" :> "Buy Now") @@ ("data-context" :> context)

HeroPayload(context) == [action |-> "Buy Now", context |-> context, type |-> "button"]

\* the first init tags the untagged 'Buy Now' button with the context and
\* emits the performance record; the first click on the button so tagged
\* appends exactly one click_event with that payload
HeroScenario(context) ==
  /\ ( /\ HeroPage
       /\ last'.op = "init"
       /\ dataLayer.items = <<>>
       /\ ownText["heroBtn"] = "Buy Now"
       /\ DOMAIN attributes["heroBtn"] = {} ) =>
       /\ attributes'["heroBtn"] = HeroTags(context)
       /\ Len(dataLayer'.items) = 1
       /\ dataLayer'.items[1].event = "tagger_performance"
  /\ ( /\ HeroPage
       /\ HandledClick
       /\ last'.target = "heroBtn"
       /\ Len(dataLayer.items) = 1
       /\ dataLayer.items[1].event = "tagger_performance"
       /\ DOMAIN attributes["heroBtn"] = DOMAIN HeroTags(context)
       /\ attributes["heroBtn"]["data-action"] = "Buy Now" ) =>
       /\ attributes'["heroBtn"] = HeroTags(context)
       /\ dataLayer'.items
            = Append(dataLayer.items,
                     [event |-> "click_event", click_object |-> HeroPayload(context),
                      timestamp |-> Instant])

\* C7 (as stated): on the page with <button class="hero">Buy Now</button> in
\* the body at the top, init tags the button button / 'Buy Now' / 'hero', and
\* one click leaves the sink with one tagger_performance record and one
\* click_event {action 'Buy Now', context 'hero', type 'button'}, no value.
C7_HeroButtonContextHero == [][HeroScenario("hero")]_vars

\* C7 (amended): the same scenario, with the context 'main-content' on the
\* button and in the click_event: the button's own class is not consulted.
C7_HeroButtonContextMainContent == [][HeroScenario("main-content")]_vars

\* C7 witness: init and one click on the 'Buy Now' button left the sink with
\* the performance record and the click_event of context 'main-content'.
C7_Witness ==
  /\ HeroPage
  /\ last.op = "click"
  /\ last.target = "heroBtn"
  /\ attributes["heroBtn"] = HeroTags("main-content")
  /\ Len(dataLayer.items) = 2
  /\ dataLayer.items[1].event = "tagger_performance"
  /\ dataLayer.items[2].event = "click_event"
  /\ dataLayer.items[2].click_object = HeroPayload("main-content")

\* C8: init never lets an exception reach its caller, and on a host without
\* the timing API it returns with getPerformanceMetrics still null.
C8_InitNeverThrows ==
  last.op = "init" =>
    /\ ~last.threw
    /\ ~performanceApi => getPerformanceMetrics = <<>>

\* C8 witness: init ran on a host without the timing API, caught the failure
\* and left the metrics null.
C8_Witness ==
  /\ last.op = "init"
  /\ ~performanceApi
  /\ last.caught
  /\ ~last.threw
  /\ getPerformanceMetrics = <<>>

\* C9: when tagging one matching element fails during init's bulk pass (its
\* setAttribute throws, or its tagName is unreadable), every other matching
\* element of the document is fully tagged after the pass.
C9_BulkTaggingSurvivesOneFailure ==
  (last.op = "init" /\ performanceApi /\ fault[Faulty] # "none") =>
    \A e \in attached :
      (MatchesAny(config, e) /\ IsHTMLElement(e) /\ e # Faulty) =>
        isElementTagged(config, attributes, e)

\* the elements that matched a configured selector at init time and that
\* satisfy Keep
Matching(Keep(_)) == {e \in attached : MatchesAny(config, e) /\ Keep(e)}

\* after an init without internal failure, every matching element satisfying
\* Keep is tagged and the snapshot counts exactly the tagged ones among them
TaggedAndCounted(Keep(_)) ==
  (last.op = "init" /\ performanceApi /\ ~last.caught) =>
    /\ \A e \in Matching(Keep) : isElementTagged(config, attributes, e)
    /\ performanceMetrics # <<>>
    /\ performanceMetrics[1].total_elements_tagged
         = Cardinality({e \in Matching(Keep) : isElementTagged(config, attributes, e)})

AnyElement(e) == TRUE

PerformanceRecords(dl) ==
  {i \in 1..Len(dl.items) : dl.items[i].event = "tagger_performance"}

\* the number of callbacks document invokes for an event of the type
Effective(L, type) == Len(ListenersFor(L, type))

\* every init satisfying Completes leaves exactly one click and one change
\* listener, however many inits and destroys came before; only init and
\* destroy change the listener list; with one click listener a click appends
\* at most one record, and a change is applied by one handler run
OneListenerEachAfterInit(Completes) ==
  /\ (last'.op = "init" /\ Completes) =>
       /\ Effective(listeners', "click") = 1
       /\ Effective(listeners', "change") = 1
  /\ last'.op \notin {"init", "destroy"} => listeners' = listeners
  /\ (last'.op = "click" /\ Effective(listeners, "click") = 1) =>
       /\ Len(dataLayer'.items) <= Len(dataLayer.items) + 1
       /\ SubSeq(dataLayer'.items, 1, Len(dataLayer.items)) = dataLayer.items
  /\ (last'.op = "change" /\ Effective(listeners, "change") = 1) =>
       attributes' = handleChange(config, attributes, fault, inputValue.value, selectedIndex,
                                  last'.target)

C12_DestroyedTaggerIsInert ==
  [][ /\ last'.op = "destroy" =>
           /\ ~last'.threw
           /\ attributes' = attributes
           /\ performanceMetrics' = performanceMetrics
           /\ dataLayer' = dataLayer
           /\ Effective(listeners', "click") = 0
           /\ Effective(listeners', "change") = 0
      /\ last'.op # "init" =>
           /\ Effective(listeners', "click") <= Effective(listeners, "click")
           /\ Effective(listeners', "change") <= Effective(listeners, "change")
      /\ ( /\ last'.op \in {"click", "change"}
           /\ Effective(listeners, "click") = 0
           /\ Effective(listeners, "change") = 0 ) =>
           /\ attributes' = attributes
           /\ dataLayer' = dataLayer ]_vars

\* C12 witness: after init and destroy, an inserted button was clicked: it
\* stays untagged and the sink holds the performance record only.
C12_Witness ==
  /\ last.op = "click"
  /\ last.target = "dyn"
  /\ listeners = <<>>
  /\ DOMAIN attributes["dyn"] = {}
  /\ Len(dataLayer.items) = 1
  /\ performanceMetrics # <<>>

\* C13: the snapshot is captured once: once getPerformanceMetrics returns a
\* snapshot, every later call returns the same snapshot, whatever init,
\* destroy, click, change and clearTags calls follow, and the sink (empty at
\* the start) holds exactly one tagger_performance record for it.
C13_SnapshotCapturedOnce ==
  [][ /\ getPerformanceMetrics # <<>> => performanceMetrics' = performanceMetrics
      /\ performanceMetrics' # <<>> =>
           Cardinality(PerformanceRecords(dataLayer')) = 1 ]_vars

\* a handled change event at an element with the tag
HandledChange(tag) ==
  /\ last'.op = "change"
  /\ Effective(listeners, "change") = 1
  /\ lowerTagName[last'.target] = tag

\* the step leaves the attributes of the roles on element e as they were
RolesUnchanged(e, roles) ==
  \A r \in roles :
    /\ hasAttribute(attributes', e, RoleName(r)) = hasAttribute(attributes, e, RoleName(r))
    /\ getAttributeOrEmpty(attributes', e, RoleName(r))
         = getAttributeOrEmpty(attributes, e, RoleName(r))

\* C14: while the listeners are installed, a change event on a select whose
\* selected option has text sets the select's action attribute to that text
\* trimmed, whether or not the select was tagged, matched a selector or had
\* an action attribute, and leaves its type, context and value attributes.
C14_SelectChangeOverwritesAction ==
  [][ (HandledChange("select") /\ SelectedOptionText(selectedIndex) # "") =>
        /\ hasAttribute(attributes', last'.target, RoleName("action"))
        /\ attributes'[last'.target][RoleName("action")]
             = Trim(SelectedOptionText(selectedIndex))
        /\ RolesUnchanged(last'.target, {"type", "context", "value"}) ]_vars

\* C14 witness: the tagged select had the action 'One'; after the second
\* option was selected the change event overwrote it with 'Two'.
C14_Witness ==
  /\ last.op = "change"
  /\ last.target = "sel"
  /\ MatchesAny(config, "sel")
  /\ attributes["sel"]
       = ("data-type" :> "dropdown") @@ ("data-action" :> "Two")
           @@ ("data-context" :> "main-content") @@ ("data-value" :> "1")

\* a handled change event at an input whose type attribute is 'number'
NumberInputChange ==
  /\ HandledChange("input")
  /\ getAttributeOrEmpty(attributes, last'.target, "type") = "number"

\* C15: while the listeners are installed, a change event on an input of
\* type number sets its value attribute to the trimmed current value when
\* that is non-empty and leaves the value attribute as it was when it is
\* empty; type, action and context stay as they were either way.
C15_NumberChangeRefreshesValue ==
  [][ NumberInputChange =>
        /\ Trim(inputValue.value) # "" =>
             /\ hasAttribute(attributes', last'.target, RoleName("value"))
             /\ attributes'[last'.target][RoleName("value")] = Trim(inputValue.value)
        /\ Trim(inputValue.value) = "" => RolesUnchanged(last'.target, {"value"})
        /\ RolesUnchanged(last'.target, {"type", "action", "context"}) ]_vars

\* C15 witness: the number input was tagged while empty (no value
\* attribute); 42 was typed and the change event wrote the value attribute.
C15_Witness ==
  /\ last.op = "change"
  /\ last.target = "num"
  /\ inputValue.value = "42"
  /\ attributes["num"]
       = ("type" :> "number") @@ ("data-type" :> "stepper") @@ ("data-action" :> "input-element")
           @@ ("data-context" :> "main-content") @@ ("data-value" :> "42")

\* C16: for a number input whose value attribute is '42', assigning 'abc' to
\* its value and dispatching a change event leaves the value attribute at
\* '42'; no change event writes a non-numeric string to the value attribute.
C16_ChangeNeverWritesNonNumeric ==
  [][ NumberInputChange =>
        /\ ( /\ inputValue.assigned = "abc"
             /\ getAttributeOrEmpty(attributes, last'.target, RoleName("value")) = "42" ) =>
             /\ hasAttribute(attributes', last'.target, RoleName("value"))
             /\ attributes'[last'.target][RoleName("value")] = "42"
        /\ ( /\ hasAttribute(attributes', last'.target, RoleName("value"))
             /\ getAttributeOrEmpty(attributes', last'.target, RoleName("value"))
                  # getAttributeOrEmpty(attributes, last'.target, RoleName("value")) ) =>
             isValidNumber(attributes'[last'.target][RoleName("value")]) ]_vars

\* C16 witness: the tagged number input with value attribute '42' was
\* assigned 'abc'; after the change event the value attribute is still '42'.
C16_Witness ==
  /\ last.op = "change"
  /\ last.target = "num"
  /\ Effective(listeners, "change") = 1
  /\ inputValue.assigned = "abc"
  /\ isElementTagged(config, attributes, "num")
  /\ getAttributeOrEmpty(attributes, "num", RoleName("value")) = "42"

\* the attached elements matching a configured selector that carry the three
\* mandatory attributes
TaggedMatches ==
  {e \in Elements :
     /\ e \in attached
     /\ MatchesAny(config, e)
     /\ \A r \in {"type", "action", "context"} : hasAttribute(attributes, e, RoleName(r))}

\* a counts mapping holds, under each key, the number of tagged matching
\* elements whose attribute for the role has that value, and no other key
CountsAgree(counts, role) ==
  LET ValueOf(e) == attributes[e][RoleName(role)]
  IN  /\ DOMAIN counts = {ValueOf(e) : e \in TaggedMatches}
      /\ \A key \in DOMAIN counts :
           counts[key] = JSNumber(Cardinality({e \in TaggedMatches : ValueOf(e) = key}))

\* what getStats returns in this state is the census of the tagged matches
StatsAgree ==
  LET stats == getStats(config, attributes, attached) IN
  /\ stats.total = Cardinality({e \in attached : MatchesAny(config, e)})
  /\ stats.tagged = Cardinality(TaggedMatches)
  /\ stats.tagged <= stats.total
  /\ CountsAgree(stats.types, "type")
  /\ CountsAgree(stats.actions, "action")
  /\ CountsAgree(stats.contexts, "context")

\* C17: in every state getStats returns total = the number of elements
\* matching the configured selectors, tagged = the number of those carrying
\* the three mandatory attributes, and in types, actions and contexts the
\* number of tagged matching elements per value; the call changes no
\* attribute and appends nothing to the sink.
C17_StatsCountTaggedMatches ==
  [][ last'.op = "getStats" =>
        /\ StatsAgree'
        /\ attributes' = attributes
        /\ dataLayer' = dataLayer ]_vars

\* the attached elements clearTags is said to clear: the matches of the
\* configured selectors, all of them or the HTMLElements among them
ClearedElements(onlyHTMLElements) ==
  {e \in attached : MatchesAny(config, e) /\ (onlyHTMLElements => IsHTMLElement(e))}

\* the step was clearTags, and it cleared the named elements and nothing else
ClearTagsClears(onlyHTMLElements) ==
  last'.op = "clearTags" =>
    /\ \A e \in ClearedElements(onlyHTMLElements) :
         \A r \in Roles : ~hasAttribute(attributes', e, RoleName(r))
    /\ getTaggedElements(config, attributes', attached') = <<>>
    /\ getStats(config, attributes', attached').tagged = 0
    /\ \A e \in Elements \ ClearedElements(onlyHTMLElements) : attributes'[e] = attributes[e]
    /\ dataLayer' = dataLayer
    /\ listeners' = listeners

\* C18 as stated: after clearTags no element matching a configured selector
\* carries any of the four configured attributes, getTaggedElements is empty
\* and getStats reports tagged = 0; the other elements keep their
\* attributes, nothing is appended to the sink and the listeners stay.
C18_ClearTagsClearsEveryMatch == [][ClearTagsClears(FALSE)]_vars

\* C18 amended: after clearTags no HTMLElement matching a configured
\* selector carries any of the four configured attributes, getTaggedElements
\* is empty and getStats reports tagged = 0; every other element, a matching
\* element that is not an HTMLElement included, keeps its attributes,
\* nothing is appended to the sink and the listeners stay.
C18_ClearTagsClearsEveryHTMLMatch == [][ClearTagsClears(TRUE)]_vars

\* C18 witness: clearTags ran after init on the page with hand-written
\* attributes: the link that had a value and a context by hand has none of
\* the four, body keeps its own, the listeners and the sink are as init left
\* them.
C18_Witness ==
  /\ last.op = "clearTags"
  /\ performanceMetrics # <<>>
  /\ Effective(listeners, "click") = 1
  /\ Effective(listeners, "change") = 1
  /\ Len(dataLayer.items) = 1
  /\ attributes["body"]
       = ("data-action" :> "page") @@ ("data-type" :> "layout") @@ ("data-value" :> "7")
  /\ DOMAIN attributes["secLink"] = {}
  /\ DOMAIN attributes["heroBtn"] = {}

\* C19: for every configuration passed to the constructor, one that supplies
\* only some of the attribute-name keys or an empty or undefined name
\* included, each of the four roles resolves to a non-empty attribute name
\* and every key not overridden keeps its data-* default.
C19_EveryRoleResolvesToAName ==
  probe.applied =>
    /\ \A r \in Roles : config.attributes[r] \notin {"", undefined}
    /\ \A r \in Roles :
         ~("attributes" \in DOMAIN probe.input /\ r \in DOMAIN probe.input.attributes)
           => config.attributes[r] = defaultAttributes[r]

\* the rule table of type inference, in order: each rule says whether it
\* applies to an element and the type it gives
TypeRules(tag, inputType, role, class) ==
  << [applies |-> tag = "input" /\ inputType = "checkbox", type |-> "checkbox"],
     [applies |-> tag = "input" /\ inputType = "radio", type |-> "radio-button"],
     [applies |-> tag = "input" /\ inputType = "text", type |-> "text-input"],
     [applies |-> tag = "input" /\ inputType = "number", type |-> "stepper"],
     [applies |-> tag = "input" /\ inputType = "range", type |-> "slider"],
     [applies |-> tag = "input" /\ inputType = "file", type |-> "file-upload"],
     [applies |-> tag = "input", type |-> "input"],
     [applies |-> tag = "select", type |-> "dropdown"],
     [applies |-> tag = "textarea", type |-> "textarea"],
     [applies |-> role = "switch", type |-> "switch"],
     [applies |-> role = "slider", type |-> "slider"],
     [applies |-> Includes(class, "quantity"), type |-> "stepper"],
     [applies |-> Includes(class, "toggle"), type |-> "toggle"],
     [applies |-> tag = "a", type |-> "link"],
     [applies |-> tag = "button", type |-> "button"],
     [applies |-> tag = "span", type |-> "span"],
     [applies |-> TRUE, type |-> tag] >>

\* the type the first rule that applies gives
FirstMatch(rules) ==
  rules[CHOOSE i \in 1..Len(rules) :
          rules[i].applies /\ \A j \in 1..(i - 1) : ~rules[j].applies].type

\* C20: for every combination of tag, type attribute, role and class the
\* inferred type is the one the first matching rule of the table gives: an
\* input by its type attribute alone, then select and textarea, then role
\* switch or slider, then a class list containing quantity or toggle, then
\* a, button and span, otherwise the lower-case tag name.
C20_TypeIsFirstMatchingRule ==
  probe.applied =>
    /\ probe.type
         = FirstMatch(TypeRules(ToLowerCase(probe.tagName),
                                IF probe.typeAttribute.isNull THEN ""
                                ELSE probe.typeAttribute.str,
                                IF probe.role.isNull THEN "" ELSE probe.role.str,
                                ToLowerCase(probe.className)))
    /\ probe.tagName = "INPUT" =>
         probe.type \in {"checkbox", "radio-button", "text-input", "stepper", "slider",
                         "file-upload", "input"}

\* C20 witness: a button whose class list contains Toggle was classified as
\* toggle, the class rule winning over the tag rule.
C20_Witness ==
  /\ probe.applied
  /\ probe.tagName = "BUTTON"
  /\ probe.role = Null
  /\ probe.className = "btn Toggle"
  /\ probe.type = "toggle"

RECURSIVE AncestorsUpTo(_, _)
\* the proper ancestors of e, nearest first, up to and including the element
\* named last (or the root when e is not below it)
AncestorsUpTo(e, top) ==
  LET p == parentElement(attached, e)
  IN  IF p = NoNode THEN <<>>
      ELSE IF p = top THEN <<p>>
      ELSE <<p>> \o AncestorsUpTo(p, top)

\* the text of the first heading inside p, "" when there is none
HeadingTextIn(p) ==
  LET Inside(d) == d \in attached /\ d # p /\ MarkupUnder(d, p) /\ LocalName(d) \in HeadingTags
      hs == SelectSeq(DocOrder, Inside)
  IN  IF hs = <<>> THEN "" ELSE textContent(ownText, attached, hs[1])

\* the rules of context inference at one ancestor, in order
ContextRules(p) ==
  LET tag == ToLowerCase(LocalName(p))
      class == ToLowerCase(ClassName(p))
      heading == HeadingTextIn(p)
  IN  << [applies |-> tag = "header", context |-> "header"],
         [applies |-> tag = "footer", context |-> "footer"],
         [applies |-> tag = "nav", context |-> "navigation"],
         [applies |-> tag = "aside", context |-> "sidebar"],
         [applies |-> Includes(class, "footer"), context |-> "footer"],
         [applies |-> Includes(class, "hero"), context |-> "hero"],
         [applies |-> Includes(class, "header"), context |-> "header"],
         [applies |-> Includes(class, "sidebar"), context |-> "sidebar"],
         [applies |-> Includes(class, "nav"), context |-> "navigation"],
         [applies |-> Trim(heading) # "", context |-> Hyphenate(ToLowerCase(Trim(heading)))] >>

\* ancestor p yields a signal
YieldsSignal(p) == \E i \in 1..Len(ContextRules(p)) : ContextRules(p)[i].applies

\* the signal of the nearest of the ancestors that yields one, "" when none does
NearestSignal(ancestors) ==
  LET yielding == {i \in 1..Len(ancestors) : YieldsSignal(ancestors[i])}
  IN  IF yielding = {} THEN ""
      ELSE LET rules == ContextRules(ancestors[CHOOSE i \in yielding : \A j \in yielding : i <= j])
           IN  rules[CHOOSE i \in 1..Len(rules) :
                       rules[i].applies /\ \A j \in 1..(i - 1) : ~rules[j].applies].context

\* a step in which the tagger wrote the context attribute of e
ContextWritten(e) ==
  /\ e \in attached
  /\ \A x \in Elements : fault[x] = "none"
  /\ ~hasAttribute(attributes, e, RoleName("context"))
  /\ hasAttribute(attributes', e, RoleName("context"))

\* the page height, and the top quarter and bottom quarter tests on e
PageHeight == IF DocumentScrollHeight >= BodyScrollHeight THEN DocumentScrollHeight
              ELSE BodyScrollHeight
InTopQuarter(e) == 4 * (RectTop(e) + PageYOffset) <= PageHeight
InBottomQuarter(e) == 4 * (RectBottom(e) + PageYOffset) >= 3 * PageHeight

\* C21: a hero or header signal is kept iff the element's absolute top is in
\* the top 25% of the page height, a footer signal iff its absolute bottom
\* is in the bottom 25%; a discarded signal gives main-content whatever the
\* higher ancestors are; navigation, sidebar and heading-derived contexts
\* are never filtered by position.
C21_PositionFiltersHeroHeaderFooter ==
  [][ \A e \in Elements : ContextWritten(e) =>
        LET signal == NearestSignal(AncestorsUpTo(e, "body"))
            context == attributes'[e][RoleName("context")]
        IN  /\ signal \in {"hero", "header"} =>
                 /\ context = signal <=> InTopQuarter(e)
                 /\ ~InTopQuarter(e) => context = "main-content"
            /\ signal = "footer" =>
                 /\ context = signal <=> InBottomQuarter(e)
                 /\ ~InBottomQuarter(e) => context = "main-content"
            /\ signal \notin {"hero", "header", "footer", ""} => context = signal ]_vars

\* C21 witness: on the article page init kept header at the quarter line
\* and dropped it one pixel lower, kept footer at the three-quarter line and
\* dropped it one pixel higher, dropped hero at 600 although an aside lies
\* above, and left sidebar, navigation and the heading's text at 600 alone.
C21_Witness ==
  /\ attached = ArticlePage
  /\ last.op = "init"
  /\ attributes["hdrLink"]["data-context"] = "header"
  /\ attributes["hdrLow"]["data-context"] = "main-content"
  /\ attributes["footEdge"]["data-context"] = "footer"
  /\ attributes["footHigh"]["data-context"] = "main-content"
  /\ attributes["lowHeroBtn"]["data-context"] = "main-content"
  /\ attributes["sideBtn"]["data-context"] = "sidebar"
  /\ attributes["menuLink"]["data-context"] = "navigation"
  /\ attributes["artBtn"]["data-context"] = "pricing-plans"

\* the proper ancestors of e below body, nearest first
AncestorsBelowBody(e) ==
  LET Below(p) == p # "body" IN SelectSeq(AncestorsUpTo(e, "body"), Below)

\* C27: context inference takes no signal from body itself: for an element
\* whose ancestors below body give no signal, the context is main-content,
\* whatever body's tag and classes and the headings inside body are.
C27_BodyGivesNoSignal ==
  [][ \A e \in Elements :
        (ContextWritten(e) /\ NearestSignal(AncestorsBelowBody(e)) = "") =>
          attributes'[e][RoleName("context")] = "main-content" ]_vars

\* the context the position test leaves of a signal
Refined(e, signal) ==
  IF signal \in {"hero", "header"} /\ ~InTopQuarter(e) THEN "main-content"
  ELSE IF signal = "footer" /\ ~InBottomQuarter(e) THEN "main-content"
  ELSE IF signal = "" THEN "main-content"
  ELSE signal

\* C28: the context comes from the nearest proper ancestor on the walk that
\* yields a signal, where a header/footer/nav/aside tag beats any class
\* match, class substrings are tried in the order footer, hero, header,
\* sidebar, nav, and the text of a contained heading (trimmed, lower-cased,
\* whitespace runs as single hyphens) counts only when neither matched; the
\* element's own tag and classes are never consulted.  What is written is
\* that signal after the position test of hero, header and footer.
C28_NearestAncestorSignalWins ==
  [][ \A e \in Elements : ContextWritten(e) =>
        attributes'[e][RoleName("context")]
          = Refined(e, NearestSignal(AncestorsUpTo(e, "body"))) ]_vars

\* C28 witness: on the article page init gave sidebar below an aside of
\* class footer-links, footer below class hero-footer, header below class
\* header-nav, sidebar below class sidebar-nav that holds a heading, and the
\* heading's text below a plain block.
C28_Witness ==
  /\ attached = ArticlePage
  /\ performanceMetrics # <<>>
  /\ attributes["sideBtn"]["data-context"] = "sidebar"
  /\ attributes["fhLink"]["data-context"] = "footer"
  /\ attributes["hnLink"]["data-context"] = "header"
  /\ attributes["snLink"]["data-context"] = "sidebar"
  /\ attributes["artBtn"]["data-context"] = "pricing-plans"
  /\ attributes["artBtn"]["data-type"] = "button"

\* numeric validity: non-empty after trimming, and parsing as a
\* floating-point number
Numeric(v) == Trim(v) # "" /\ ParsesAsFloat(Trim(v))

\* the probe is a select that tagElement has tagged
SelectTagged == probe.applied /\ probe.fn = "tagElement"

\* C22: for a select, value inference returns the trimmed selected value
\* exactly when every option's value is empty or numeric and the selected
\* value is numeric; otherwise the value is absent and tagging writes no
\* value attribute.
C22_SelectValueNeedsAllNumeric ==
  SelectTagged =>
    LET allNumeric ==
          \A i \in 1..Len(probe.optionValues) :
             probe.optionValues[i] = "" \/ Numeric(probe.optionValues[i])
    IN  IF allNumeric /\ Numeric(probe.value)
        THEN /\ probe.result = Str(Trim(probe.value))
             /\ attributes["sel"]["data-value"] = Trim(probe.value)
        ELSE /\ probe.result = Null
             /\ ~hasAttribute(attributes, "sel", "data-value")
             /\ hasAttribute(attributes, "sel", "data-type")

\* C22 witness: a select with the options ' 7 ', 'abc' and '5', ' 7 '
\* selected, was tagged without a value attribute.
C22_Witness ==
  /\ SelectTagged
  /\ probe.optionValues = <<" 7 ", "abc", "5">>
  /\ probe.value = " 7 "
  /\ probe.result = Null
  /\ DOMAIN attributes["sel"] = {"data-type", "data-action", "data-context"}

\* the candidates of action inference for the probed element, in order,
\* each trimmed
ActionCandidates ==
  LET OrEmpty(v) == IF v.isNull THEN "" ELSE Trim(v.str)
  IN  << IF ToLowerCase(probe.tagName) = "select" THEN OrEmpty(probe.selectedOption) ELSE "",
         OrEmpty(probe.ariaLabel),
         Trim(probe.text),
         OrEmpty(probe.title),
         ToLowerCase(probe.tagName) \o "-element" >>

\* C26: action inference returns the first candidate that is non-empty
\* after trimming, in the order selected option text (selects only),
\* aria-label, text content, title, '<lowercase-tag>-element'; it never
\* returns an empty string, and a select whose selected option text is
\* empty or only whitespace falls through to the later rules.
C26_ActionIsFirstNonEmptyCandidate ==
  (probe.applied /\ probe.fn = "determineAction") =>
    /\ probe.action # ""
    /\ probe.action
         = ActionCandidates[CHOOSE i \in 1..Len(ActionCandidates) :
                              /\ ActionCandidates[i] # ""
                              /\ \A j \in 1..(i - 1) : ActionCandidates[j] = ""]

RECURSIVE VisitedFrom(_, _)
\* the elements among the first k nodes from n upward, lowest first
VisitedFrom(n, k) ==
  IF k = 0 \/ n = NoNode THEN <<>>
  ELSE (IF n \in Elements THEN <<n>> ELSE <<>>) \o VisitedFrom(parentNode(attached, n), k - 1)

\* the positions on the click's path of the nodes that have, after the
\* click's tagging, a non-empty attribute for one of the roles
PathNodesWith(roles) ==
  LET path == VisitedFrom(last'.target, 10)
  IN  {i \in 1..Len(path) :
         \E r \in roles : attributeTruthy(attributes', path[i], RoleName(r))}

\* the click appended a click_event, whose payload is examined
ClickEmitted == HandledClick /\ AppendsOne("click_event")

\* C23: in a click payload, action and context are taken from the lowest
\* visited node that has a non-empty action or context attribute; such
\* attributes on higher visited nodes do not replace them.
C23_ActionContextFromLowestNode ==
  [][ (ClickEmitted /\ PathNodesWith({"action", "context"}) # {}) =>
        LET path == VisitedFrom(last'.target, 10)
            having == PathNodesWith({"action", "context"})
            lowest == path[CHOOSE i \in having : \A j \in having : i <= j]
        IN  \A r \in {"action", "context"} :
              attributeTruthy(attributes', lowest, RoleName(r)) =>
                /\ r \in DOMAIN Appended.click_object
                /\ Appended.click_object[r] = attributes'[lowest][RoleName(r)] ]_vars

\* C24: in a click payload, type (and likewise value) is the non-empty type
\* (value) attribute of the highest of the at most 10 visited nodes that has
\* one, and is absent when no visited node has one.
C24_TypeValueFromHighestNode ==
  [][ ClickEmitted =>
        LET path == VisitedFrom(last'.target, 10) IN
        \A r \in {"type", "value"} :
          LET having == PathNodesWith({r}) IN
          IF having = {} THEN r \notin DOMAIN Appended.click_object
          ELSE /\ r \in DOMAIN Appended.click_object
               /\ Appended.click_object[r]
                    = attributes'[path[CHOOSE i \in having : \A j \in having : i >= j]][RoleName(r)]
    ]_vars

\* one of the first 10 nodes from the click target upward is an element
\* with a non-empty action or context attribute
PathHasAnalytics == PathNodesWith({"action", "context"}) # {}

\* C25: the walk of a click runs whether or not the target matches a
\* configured selector and whether or not tagging the target succeeded: a
\* click on a target matching no selector writes no attribute, and every
\* handled click emits a click_event when a visited node carries a non-empty
\* action or context attribute.
C25_WalkRunsWhateverTaggingDid ==
  [][ HandledClick =>
        /\ ~MatchesAny(config, last'.target) => attributes' = attributes
        /\ PathHasAnalytics => AppendsOne("click_event") ]_vars

\* what tagElement does with element e in the current state
TagElementNow(e) ==
  tagElement(config, attributes, ownText, attached, fault, inputValue.value, selectedIndex, e)

\* C29: when tagging an element fails internally (its tag name is
\* unreadable, or an attribute write throws), no exception escapes the
\* per-element operation and the element ends up carrying type, action and
\* context attributes with the fallback classification (type = lowercase
\* tag or 'unknown', context = 'main-content').
C29_FailedElementGetsFallbackTags ==
  [][ \A e \in Elements :
        ( /\ HandledClick
          /\ last'.target = e
          /\ MatchesAny(config, e)
          /\ fault[e] # "none"
          /\ TagElementNow(e).caught ) =>
          /\ ~TagElementNow(e).threw
          /\ \A r \in {"type", "action", "context"} :
               hasAttribute(attributes', e, RoleName(r))
          /\ getAttributeOrEmpty(attributes', e, RoleName("type"))
               \in {ToLowerCase(LocalName(e)), "unknown"}
          /\ getAttributeOrEmpty(attributes', e, RoleName("context")) = "main-content" ]_vars

\* C30: for every configuration of the attribute names, the click walk reads
\* the configured names that tagging writes, so a click on an element tagged
\* by the tagger (no other visited node carrying attributes) emits a
\* click_event with the element's tagged type, action, context and value.
C30_ClickReadsConfiguredNames ==
  [][ LET t == last'.target
          others == (FirstNodes(attached, t, 10) \cap Elements) \ {t}
      IN  ( /\ HandledClick
            /\ isElementTagged(config, attributes', t)
            /\ \A n \in others : DOMAIN attributes'[n] = {} ) =>
            /\ AppendsOne("click_event")
            /\ \A r \in Roles :
                 attributeTruthy(attributes', t, RoleName(r)) =>
                   /\ r \in DOMAIN Appended.click_object
                   /\ Appended.click_object[r] = attributes'[t][RoleName(r)] ]_vars

====
